---- MODULE Spec2Model ----
(***************************************************************************)
(* Model of the SSH session engine (SshExecutionService), its text         *)
(* utilities (PromptDetector, TerminalOutputProcessor) and the script      *)
(* executor (ScriptExecutor) of SSH_Helper_Electron.                       *)
(*                                                                         *)
(* Text is a sequence of one-character strings.  The control characters    *)
(* that TLA+ strings cannot spell are written "BS" (\x08), "BEL" (\x07)    *)
(* and "ESC" (\x1b); each stands for ONE character.                        *)
(*                                                                         *)
(* Time is counted in units of 50 ms (the default pollInterval).           *)
(***************************************************************************)
EXTENDS Integers, Sequences, FiniteSets, TLC

(***************************************************************************)
(* Characters.                                                             *)
(***************************************************************************)
CR == "\r"
LF == "\n"
TAB == "\t"
BACKSPACE == "BS"
BELL == "BEL"
ESC == "ESC"

\* What the regex class \s and String.prototype.trim() treat as white space,
\* among the characters of the model.
WhiteSpace == {" ", "\n", "\r", "\t"}

Letters ==
    {"a","b","c","d","e","f","g","h","i","j","k","l","m","n","o","p","q","r",
     "s","t","u","v","w","x","y","z",
     "A","B","C","D","E","F","G","H","I","J","K","L","M","N","O","P","Q","R",
     "S","T","U","V","W","X","Y","Z"}

Digits == {"0","1","2","3","4","5","6","7","8","9"}

\* PromptDetector.PROMPT_TERMINATORS, in the order the code tries them.
PROMPT_TERMINATORS == <<"#", ">", "$", "%">>

(***************************************************************************)
(* String primitives of JavaScript, on sequences of characters.            *)
(***************************************************************************)
\* s.slice(from - 1, to) with 1-based inclusive positions from..to.
Slice(s, from, to) == IF from > to THEN << >> ELSE SubSeq(s, from, to)

\* s.slice(-n): the last n characters.
SliceLast(s, n) == IF Len(s) <= n THEN s ELSE SubSeq(s, Len(s) - n + 1, Len(s))

RECURSIVE SkipWs(_, _)
\* The position reached from p by the greedy \s*.
SkipWs(s, p) ==
    IF p <= Len(s) /\ s[p] \in WhiteSpace THEN SkipWs(s, p + 1) ELSE p

RECURSIVE TrimStart(_)
TrimStart(s) ==
    IF s # << >> /\ Head(s) \in WhiteSpace THEN TrimStart(Tail(s)) ELSE s

RECURSIVE TrimEnd(_)
TrimEnd(s) ==
    IF s # << >> /\ s[Len(s)] \in WhiteSpace
    THEN TrimEnd(SubSeq(s, 1, Len(s) - 1))
    ELSE s

\* String.prototype.trim()
Trim(s) == TrimEnd(TrimStart(s))

\* lit occurs in s at position p.
LitAt(s, p, lit) ==
    /\ p >= 1
    /\ p + Len(lit) - 1 <= Len(s)
    /\ \A k \in 1..Len(lit) : s[p + k - 1] = lit[k]

\* s.endsWith(lit)
EndsWith(s, lit) == Len(lit) <= Len(s) /\ LitAt(s, Len(s) - Len(lit) + 1, lit)

\* s.includes(lit)
Includes(s, lit) == \E p \in 1..Len(s) : LitAt(s, p, lit)

\* The least element of a set of positions, or 0 when it is empty.
MinOrZero(S) == IF S = {} THEN 0 ELSE CHOOSE x \in S : \A y \in S : x <= y

\* The greatest element of a set of positions, or 0 when it is empty.
MaxOrZero(S) == IF S = {} THEN 0 ELSE CHOOSE x \in S : \A y \in S : y <= x

\* The position of the first LF of s at or after p, or 0.
NextLF(s, p) == MinOrZero({q \in p..Len(s) : s[q] = LF})

RECURSIVE SplitFrom(_, _)
\* The pieces of s from position p on, q being the next LF (0: none).
SplitAt(s, p, q) ==
    IF q = 0 THEN <<Slice(s, p, Len(s))>>
    ELSE <<Slice(s, p, q - 1)>> \o SplitFrom(s, q + 1)

\* s.split('\n'), from position p on.
SplitFrom(s, p) == SplitAt(s, p, NextLF(s, p))

\* s.split('\n'): the empty string gives one empty line.
SplitLines(s) == SplitFrom(s, 1)

RECURSIVE JoinLines(_)
\* lines.join('\n')
JoinLines(lines) ==
    IF lines = << >> THEN << >>
    ELSE IF Len(lines) = 1 THEN lines[1]
    ELSE lines[1] \o <<LF>> \o JoinLines(Tail(lines))

(***************************************************************************)
(* PromptDetector (src/main/utils/PromptDetector.ts).                      *)
(***************************************************************************)
\* PROMPT_TERMINATORS[i], "" for i = 0.
TerminatorAt(i) == IF i = 0 THEN "" ELSE PROMPT_TERMINATORS[i]

\* The terminator buildPromptRegex finds: the first of PROMPT_TERMINATORS the
\* literal ends with, or "" when there is none.
FindTerminator(promptLiteral) ==
    TerminatorAt(MinOrZero({i \in 1..Len(PROMPT_TERMINATORS) :
                               EndsWith(promptLiteral, <<PROMPT_TERMINATORS[i]>>)}))

\* The matcher for a literal and the terminator found in it.
RegexOf(promptLiteral, terminator) ==
    IF terminator = ""
    THEN [base |-> promptLiteral, term |-> ""]
    ELSE [base |-> Trim(SubSeq(promptLiteral, 1, Len(promptLiteral) - 1)),
          term |-> terminator]

\* buildPromptRegex: a compiled prompt matcher is represented by the record of
\* its two literal parts.  With a terminator the pattern is
\*   escapedBase (?:\([^)]*\))? escapedTerminator \s*$
\* and without one it is  escapedLiteral \s*$ .
buildPromptRegex(promptLiteral) == RegexOf(promptLiteral, FindTerminator(promptLiteral))

\* The position after q, 0 for q = 0.
AfterOrZero(q) == IF q = 0 THEN 0 ELSE q + 1

\* The end of the optional mode group (?:\([^)]*\))? tried at position p: the
\* position after the first ")" following a "(" at p, or 0 when the group
\* cannot match there.
ModeGroupEnd(s, p) ==
    IF p <= Len(s) /\ s[p] = "("
    THEN AfterOrZero(MinOrZero({q \in (p + 1)..Len(s) : s[q] = ")"}))
    ELSE 0

\* The matcher with a terminator on t, which is s without the white space the
\* final \s* takes.
RegexTestTrimmed(regex, t) ==
    /\ t # << >>
    /\ t[Len(t)] = regex.term
    /\ \/ EndsWith(SubSeq(t, 1, Len(t) - 1), regex.base)
       \/ \E p \in 1..(Len(t) - 1) :
              /\ ModeGroupEnd(t, p) = Len(t)
              /\ EndsWith(SubSeq(t, 1, p - 1), regex.base)

\* regex.test(s) for a matcher built by buildPromptRegex.  The pattern is not
\* anchored on the left and the regex has no flags, so $ is the end of s.
RegexTest(regex, s) ==
    IF regex.term = ""
    THEN \* the \s* may also give back white space to the literal's own tail
         \E e \in 0..Len(s) :
             /\ \A k \in (e + 1)..Len(s) : s[k] \in WhiteSpace
             /\ EndsWith(SubSeq(s, 1, e), regex.base)
    ELSE RegexTestTrimmed(regex, TrimEnd(s))

\* isLikelyPrompt(line)
isLikelyPrompt(line) ==
    /\ Len(line) > 0
    /\ Len(line) <= 100
    /\ \E i \in 1..Len(PROMPT_TERMINATORS) : line[Len(line)] = PROMPT_TERMINATORS[i]
    /\ ~Includes(line, <<TAB>>)
    /\ ~Includes(line, <<" ", " ">>)
    /\ Len(line) <= 50

\* lines[i] trimmed, << >> (null) for i = 0.
PromptAt(lines, i) == IF i = 0 THEN << >> ELSE Trim(lines[i])

\* The loop of tryDetectPrompt over the final five lines, from the last one.
LastLikelyPrompt(lines) ==
    PromptAt(lines,
             MaxOrZero({i \in (IF Len(lines) - 5 > 0 THEN Len(lines) - 4 ELSE 1)..Len(lines) :
                           isLikelyPrompt(Trim(lines[i]))}))

\* tryDetectPrompt(buffer): the last of the final five lines that, trimmed,
\* looks like a prompt; << >> stands for null (a likely prompt is not empty).
tryDetectPrompt(buffer) == LastLikelyPrompt(SplitLines(buffer))

\* tryDetectPromptFromTail(buffer)
tryDetectPromptFromTail(buffer) == tryDetectPrompt(SliceLast(buffer, 500))

\* bufferEndsWithPrompt(buffer, promptRegex)
bufferEndsWithPrompt(buffer, promptRegex) == RegexTest(promptRegex, SliceLast(buffer, 200))

\* `detectedPrompt && PromptDetector.isLikelyPrompt(detectedPrompt)`
IsPrompt(detectedPrompt) == detectedPrompt # << >> /\ isLikelyPrompt(detectedPrompt)

\* The same test on what tryDetectPromptFromTail finds in the buffer.
LooksLikePrompt(buffer) == IsPrompt(tryDetectPromptFromTail(buffer))

(***************************************************************************)
(* TerminalOutputProcessor (src/main/utils/TerminalOutputProcessor.ts).    *)
(***************************************************************************)
\* isEscapeTerminator(char): a letter ends a CSI sequence.
isEscapeTerminator(char) == char \in Letters

RECURSIVE CsiEnd(_, _)
\* `while (j < input.length && !isEscapeTerminator(input[j])) j++`, 1-based.
CsiEnd(input, j) ==
    IF j <= Len(input) /\ ~isEscapeTerminator(input[j]) THEN CsiEnd(input, j + 1) ELSE j

\* Writing char at the cursor: overwrite inside the line, append at its end.
PutChar(currentLine, cursorPos, char) ==
    IF cursorPos < Len(currentLine)
    THEN SubSeq(currentLine, 1, cursorPos) \o <<char>>
             \o SubSeq(currentLine, cursorPos + 2, Len(currentLine))
    ELSE Append(currentLine, char)

RECURSIVE PutSpaces(_, _, _)
\* The tab case: `spaces` blanks written from the cursor.
PutSpaces(currentLine, cursorPos, spaces) ==
    IF spaces = 0 THEN currentLine
    ELSE PutSpaces(PutChar(currentLine, cursorPos, " "), cursorPos + 1, spaces - 1)

\* The state of the loop of normalize: i is the index of the next character
\* the loop looks at (1-based), cursorPos the cursor column (0-based, as in
\* the code).
NormalizeStart == [i |-> 1, result |-> << >>, currentLine |-> << >>, cursorPos |-> 0]

\* The body of the loop of normalize at character k; a character that a CSI
\* sequence has skipped (`i = j`) is not looked at.
NormalizeStep(input, st, k) ==
    IF k < st.i THEN st
    ELSE LET char == input[k]
             next == [st EXCEPT !.i = k + 1]
         IN  CASE char = CR -> [next EXCEPT !.cursorPos = 0]
               [] char = LF -> [next EXCEPT !.result = Append(@, st.currentLine),
                                            !.currentLine = << >>,
                                            !.cursorPos = 0]
               [] char = TAB ->
                    LET spaces == 8 - (st.cursorPos % 8)
                    IN  [next EXCEPT !.currentLine = PutSpaces(@, st.cursorPos, spaces),
                                     !.cursorPos = @ + spaces]
               [] char = BACKSPACE ->
                    [next EXCEPT !.cursorPos = IF @ > 0 THEN @ - 1 ELSE @]
               [] char = BELL -> next
               [] char = ESC ->
                    IF k + 1 <= Len(input) /\ input[k + 1] = "["
                    THEN [next EXCEPT !.i = CsiEnd(input, k + 2) + 1]
                    ELSE next
               [] OTHER ->
                    [next EXCEPT !.currentLine = PutChar(@, st.cursorPos, char),
                                 !.cursorPos = @ + 1]

RECURSIVE NormalizeLoop(_, _, _, _)
\* The second half of a range of the loop: nothing is left to do in it when a
\* CSI sequence has skipped all of it.
NormalizeRest(input, from, to, half) ==
    IF half.i > to THEN half ELSE NormalizeLoop(input, from, to, half)

\* The loop of normalize over the characters from..to, in order.  The range
\* is halved to keep the evaluation shallow.
NormalizeLoop(input, from, to, st) ==
    IF from > to THEN st
    ELSE IF from = to THEN NormalizeStep(input, st, from)
    ELSE NormalizeRest(input, ((from + to) \div 2) + 1, to,
                       NormalizeLoop(input, from, (from + to) \div 2, st))

\* "Add final line if not empty" and the join.
NormalizeEnd(st) ==
    JoinLines(IF st.currentLine # << >> THEN Append(st.result, st.currentLine)
              ELSE st.result)

\* normalize(input).  Every character of the model that is not one of the
\* control characters above is printable (char >= ' ').
normalize(input) == NormalizeEnd(NormalizeLoop(input, 1, Len(input), NormalizeStart))

RECURSIVE DashRun(_, _)
\* The number of "-" from position p on (the greedy -+).
DashRun(s, p) == IF p <= Len(s) /\ s[p] = "-" THEN 1 + DashRun(s, p + 1) ELSE 0

\* "More" at position p, ignoring case (the /i flag).
MoreAt(s, p) ==
    /\ p + 3 <= Len(s)
    /\ s[p] \in {"M", "m"}
    /\ s[p + 1] \in {"O", "o"}
    /\ s[p + 2] \in {"R", "r"}
    /\ s[p + 3] \in {"E", "e"}

\* The closing dashes of the group: n opening dashes were read, m dashes
\* stand at b.
PagerGroupClose(n, b, m) ==
    IF m = 0 THEN 0
    ELSE IF n = 2 /\ m >= 2 THEN b + 2
    ELSE b + m

\* "More" at a and what follows it, after n opening dashes.
PagerGroupMore(s, n, a) ==
    IF n = 0 \/ ~MoreAt(s, a) THEN 0
    ELSE PagerGroupClose(n, SkipWs(s, a + 4), DashRun(s, SkipWs(s, a + 4)))

\* The group (?:--\s*More\s*--|(?:-+\s*More\s*-+)) tried at position p: the
\* position after the match, or 0.  The first alternative is taken when it
\* matches (exactly two dashes, then at least two); else the second, whose -+
\* are greedy and can give nothing back, a dash never being followed by a
\* dash-free continuation.
PagerGroupEnd(s, p) == PagerGroupMore(s, DashRun(s, p), SkipWs(s, p + DashRun(s, p)))

\* The position after an optional character c at p.
Optional(s, p, c) == IF p <= Len(s) /\ s[p] = c THEN p + 1 ELSE p

\* The [ ]?\r? that follows the group ending at g (0: no match).
PagerTail(s, g) == IF g = 0 THEN 0 ELSE Optional(s, Optional(s, g, " "), CR)

\* PAGER_REGEX = /\r?(?:--\s*More\s*--|(?:-+\s*More\s*-+))[ ]?\r?/i tried at
\* position p: the position after the match, or 0.  The group starts with a
\* dash, so a CR at p is always taken by the \r?.
PagerMatchEnd(s, p) == PagerTail(s, PagerGroupEnd(s, Optional(s, p, CR)))

\* The start of the leftmost match of PAGER_REGEX in s, or 0.
PagerMatchStart(s) == MinOrZero({p \in 1..Len(s) : PagerMatchEnd(s, p) > 0})

\* containsPagerPrompt(text): PAGER_REGEX.test(text); the regex has no g flag,
\* so the test keeps no position between calls.
containsPagerPrompt(text) == PagerMatchStart(text) > 0

\* text without the match of PAGER_REGEX that starts at p (0: no match).
CutPagerMatch(text, p) ==
    IF p = 0 THEN text
    ELSE SubSeq(text, 1, p - 1) \o Slice(text, PagerMatchEnd(text, p), Len(text))

\* text.replace(PAGER_REGEX, ''): the first match only.
ReplacePagerOnce(text) == CutPagerMatch(text, PagerMatchStart(text))

PagerPercentLit == <<"-","-","M","o","r","e","-","-"," ","(">>
PagerArrowLit == <<"<","-","-","-"," ","M","o","r","e"," ","-","-","-",">">>
PagerAnyKeyLit == <<"P","r","e","s","s"," ","a","n","y"," ","k","e","y"," ","t","o"," ","c","o","n","t","i","n","u","e",".",".",".">>
PagerSpaceLit == <<"P","r","e","s","s"," ","S","P","A","C","E"," ","f","o","r"," ","m","o","r","e",","," ","Q"," ","t","o"," ","q","u","i","t",".",".",".">>

\* The four global patterns of stripPagerArtifacts, in the code's order.
PagerPatterns == <<"percent", "arrow", "anykey", "space">>

RECURSIVE DigitsEnd(_, _)
\* The position reached from q by \d*.
DigitsEnd(s, q) == IF q <= Len(s) /\ s[q] \in Digits THEN DigitsEnd(s, q + 1) ELSE q

\* The \d+%\)\s* of the percent pattern: the digits stand at d..e-1.
PercentEnd(s, d, e) ==
    IF e > d /\ LitAt(s, e, <<"%", ")">>) THEN SkipWs(s, e + 2) ELSE 0

\* A literal at p followed by \s*: the position after the match, or 0.
LitThenWs(s, p, lit) == IF LitAt(s, p, lit) THEN SkipWs(s, p + Len(lit)) ELSE 0

\* Pattern k tried at position p: the position after the match, or 0.
\*   percent  /--More-- \(\d+%\)\s*/
\*   arrow    /<--- More --->\s*/
\*   anykey   /Press any key to continue\.\.\.\s*/
\*   space    /Press SPACE for more, Q to quit\.\.\.\s*/
PatternEnd(k, s, p) ==
    CASE k = "percent" ->
           IF LitAt(s, p, PagerPercentLit)
           THEN PercentEnd(s, p + Len(PagerPercentLit),
                           DigitsEnd(s, p + Len(PagerPercentLit)))
           ELSE 0
      [] k = "arrow" -> LitThenWs(s, p, PagerArrowLit)
      [] k = "anykey" -> LitThenWs(s, p, PagerAnyKeyLit)
      [] k = "space" -> LitThenWs(s, p, PagerSpaceLit)

\* The start of the first match of pattern k in s at or after p, or 0.
NextMatch(k, s, p) == MinOrZero({q \in p..Len(s) : PatternEnd(k, s, q) > 0})

RECURSIVE ReplaceAllFrom(_, _, _)
\* s from p on without the matches of pattern k, q being the start of the
\* next match (0: none).
ReplaceAt(k, s, p, q) ==
    IF q = 0 THEN Slice(s, p, Len(s))
    ELSE Slice(s, p, q - 1) \o ReplaceAllFrom(k, s, PatternEnd(k, s, q))

\* text.replace(pattern, '') with the g flag, from position p: the matches
\* are taken from left to right and do not overlap.
ReplaceAllFrom(k, s, p) == ReplaceAt(k, s, p, NextMatch(k, s, p))

RECURSIVE StripPatterns(_, _)
\* The loop over pagerPatterns from pattern number i.
StripPatterns(text, i) ==
    IF i > Len(PagerPatterns) THEN text
    ELSE StripPatterns(ReplaceAllFrom(PagerPatterns[i], text, 1), i + 1)

\* stripPagerArtifacts(text).text
stripPagerArtifacts(text) == StripPatterns(ReplacePagerOnce(text), 1)

RECURSIVE SpaceRun(_, _)
SpaceRun(s, p) == IF p <= Len(s) /\ s[p] = " " THEN 1 + SpaceRun(s, p + 1) ELSE 0

\* text without a leading \r[ ]+\r whose run of blanks has length n.
CutDismissal(text, n) ==
    IF Len(text) >= 3 /\ text[1] = CR /\ n >= 1 /\ 2 + n <= Len(text) /\ text[2 + n] = CR
    THEN Slice(text, 3 + n, Len(text))
    ELSE text

\* stripPagerDismissalArtifacts(text): text.replace(/^\r[ ]+\r/, ''); without
\* the m flag ^ is the start of the text.
stripPagerDismissalArtifacts(text) == CutDismissal(text, SpaceRun(text, 2))

(***************************************************************************)
(* Bounds of the model and the timing configuration.                       *)
(*                                                                         *)
(* The timeouts are run-time configuration (DEFAULT_TIMEOUTS, changed by   *)
(* setTimeouts and by the timeout argument of execute); the model gives    *)
(* them small values, in units of 50 ms, that keep their order:            *)
(* pollInterval < promptConfirmMs < idleTimeout < commandTimeout.  maxPages *)
(* is the constant of execute, scaled down likewise.                       *)
(***************************************************************************)
pollInterval == 1
DrainDelay == 2
promptConfirmMs == 2
idleTimeout == 3
DefaultCommandTimeout == 8
ShortCommandTimeout == 4
maxPages == 1
MaxLate == 0
MaxChunks == 2
MaxStale == 1
MaxCommands == 2

\* The execute calls that may be in progress at once.
Execs == {1, 2}

\* The timeout argument of execute: 0 stands for an omitted (undefined) one.
TimeoutArgs == {0, ShortCommandTimeout}

\* The 'data' events of the runs with concurrent execute calls.
IpcChunks == { <<"h", "#">> }

\* What the remote shell sends in one 'data' event.
PagerMore == <<"-","-","M","o","r","e","-","-">>
Chunks ==
    { <<"a", LF>>,            \* the command echo, or a line of output
      <<"h", "#">>,           \* the prompt the session was initialized with
      <<"a", "#">>,           \* text that looks like a prompt, but is not the known one
      PagerMore,
      <<CR, " ", CR>> }       \* what a device sends after a pager is dismissed

(***************************************************************************)
(* State.                                                                  *)
(*   now       Date.now(), in units of 50 ms                               *)
(*   session   the SshSession of the host (SshExecutionService.sessions)   *)
(*   cancelled SshExecutionService.cancelled                               *)
(*   ex        per execute call: the locals of its closure, its timer and  *)
(*             its promise                                                 *)
(*   gh        per execute call: history kept for the properties only      *)
(*   res       createResult applied to a buffer built from given lines     *)
(*   sc        a run of ScriptExecutor.executeSteps                        *)
(*   bt        a sequence of batches of the ssh:executeOnHosts handler     *)
(*   ev        an evaluation of the ExpressionEvaluator                    *)
(*   cn        the connect call that made the session: its promise and the *)
(*             interval timer of initializeSession                         *)
(*   pool      the connections of SshConnectionPool                        *)
(*   tp        a call of a function of TerminalOutputProcessor             *)
(*   dev       the device at the far end of the shell stream, where what   *)
(*             it sends is followed: the width of the blank run it clears  *)
(*             a pager marker with, and how much of its output it has sent *)
(*   cx        a ScriptContext and the steps run on it                     *)
(***************************************************************************)
VARIABLES now, session, cancelled, ex, gh, res, sc, bt, ev, cn, pool, tp, dev, cx

vars == <<now, session, cancelled, ex, gh, res, sc, bt, ev, cn, pool, tp, dev, cx>>

NoResult == [success |-> FALSE, errorMessage |-> "none", output |-> << >>, duration |-> 0]

NullRegex == [base |-> << >>, term |-> "null"]

\* What is remembered of a call's latest poll tick (history).
NoTick ==
    [branch |-> "none", elapsed |-> 0, arrived |-> FALSE, detected |-> FALSE,
     wasPending |-> FALSE, pagerSeen |-> FALSE, budgetLeft |-> FALSE,
     wroteSpace |-> FALSE, stripped |-> FALSE, marked |-> FALSE, promptLike |-> FALSE,
     knownMatch |-> FALSE, sinceMark |-> 0, arrivedSinceMark |-> FALSE,
     wasCancelled |-> FALSE]

IdleExec ==
    [pc |-> "idle", startTime |-> 0, commandTimeout |-> 0, timerDue |-> 0,
     potentialPromptDetected |-> FALSE, potentialPromptTime |-> 0,
     lastDataTime |-> 0, lastBufferLength |-> 0,
     justDismissedPager |-> FALSE, pageCount |-> 0,
     timerOn |-> FALSE, result |-> NoResult, resolved |-> 0]

IdleGhost ==
    [calls |-> 0, ticks |-> 0, tick |-> NoTick, arrived |-> FALSE,
     arrivedSinceMark |-> FALSE, everPromptLike |-> FALSE, spaces |-> 0,
     bufferAtWrite |-> << >>, staleAtWrite |-> 0, staleAtResult |-> 0]

\* The session as connect() leaves it when it resolves: prompt detected during
\* initialization, all buffers cleared, output suppressed, no command in flight.
\* stale counts the 'data' events since the buffer was last cleared that came
\* while no command was in flight, received those that came while one was
\* (history, for the properties and the bounds only); emitted holds the lines
\* of the 'output' events the engine has emitted.
InitialSession ==
    [promptRegex |-> buildPromptRegex(<<"h", "#">>),
     currentPrompt |-> <<"h", "#">>,
     buffer |-> << >>,
     suppressOutput |-> TRUE,
     commandSentTime |-> 0,
     preCommandBuffer |-> << >>,
     lineBuffer |-> << >>,
     emitted |-> << >>,
     stale |-> 0,
     received |-> 0]

\* cn once connect has resolved and is of no further interest.
Connected ==
    [pc |-> "resolved", error |-> "", timerOn |-> FALSE, startTime |-> 0,
     timerDue |-> 0, ticks |-> 0]

\* pool while no pool is in use.
NoPool == [pc |-> "idle"]

\* tp while no function of TerminalOutputProcessor is being applied.
NoText ==
    [pc |-> "idle", fn |-> "none", input |-> << >>, output |-> << >>,
     again |-> << >>, sawPager |-> FALSE]

\* dev while the output of the device is not followed.
NoDevice == [pad |-> 0, sent |-> 0]

\* cx while no ScriptContext is followed.
NoContext == [pc |-> "idle"]

IdleEngine ==
    /\ cx = NoContext
    /\ now = 1
    /\ session = InitialSession
    /\ cancelled = FALSE
    /\ ex = [e \in Execs |-> IdleExec]
    /\ gh = [e \in Execs |-> IdleGhost]
    /\ cn = Connected
    /\ pool = NoPool
    /\ tp = NoText
    /\ dev = NoDevice

\* bt and ev while no batch is running and no expression is being evaluated.
NoBatch == [pc |-> "idle"]

NoEval == [pc |-> "idle"]

SshInit == IdleEngine /\ bt = NoBatch /\ ev = NoEval

\* res and sc while no result is being built and no script is running.
NoRes == [pc |-> "idle", echo |-> << >>, body |-> << >>, promptLine |-> << >>,
          eol |-> << >>, buffer |-> << >>, output |-> << >>]

\* The place of a CommandResult where there is none.
NoCommandResult ==
    [success |-> FALSE, controlFlow |-> "none", exitMessage |-> << >>, error |-> ""]

NoLast == [steps |-> << >>, ran |-> << >>, result |-> NoCommandResult, byCancel |-> FALSE]

NoScript == [pc |-> "idle", stack |-> << >>, cancelled |-> FALSE,
             pending |-> NoCommandResult, ret |-> NoCommandResult, last |-> NoLast]

Init == SshInit /\ res = NoRes /\ sc = NoScript

(***************************************************************************)
(* SshExecutionService.execute: one poll tick (processBuffer) as a         *)
(* function of the state it reads.                                         *)
(***************************************************************************)
\* A timeout test that lets the tick at exactly commandTimeout pass.
TimeoutReachedStrict(elapsed, commandTimeout) == elapsed > commandTimeout

\* `elapsed >= commandTimeout`
TimeoutReached(elapsed, commandTimeout) == elapsed >= commandTimeout

\* The two opening checks with cancellation looked at first.
PreCheckCancelFirst(elapsed, commandTimeout, isCancelled) ==
    IF isCancelled THEN "cancel"
    ELSE IF elapsed >= commandTimeout THEN "timeout"
    ELSE "none"

\* The two checks that open processBuffer, in the order the code makes them.
PreCheck(elapsed, commandTimeout, isCancelled) ==
    IF TimeoutReached(elapsed, commandTimeout) THEN "timeout"
    ELSE IF isCancelled THEN "cancel"
    ELSE "none"

\* `session.buffer.length > lastBufferLength`
NewDataArrived(buffer, lastBufferLength) == Len(buffer) > lastBufferLength

\* A page budget that allows one page more.
PagerBudgetInclusive(pageCount) == pageCount <= maxPages

\* `pageCount < maxPages`
PagerBudgetLeft(pageCount) == pageCount < maxPages

\* `timeSincePotential >= this.timeouts.promptConfirmMs`
QuietPeriodOver(timeSincePotential) == timeSincePotential >= promptConfirmMs

\* `timeSinceData > this.timeouts.idleTimeout`
IdleTimeoutOver(timeSinceData) == timeSinceData > idleTimeout

\* `!session.promptRegex?.test(detectedPrompt)`
PromptChanged(promptRegex, detectedPrompt) ==
    promptRegex = NullRegex \/ ~RegexTest(promptRegex, detectedPrompt)

\* What a tick starts from: the session fields and closure variables it reads
\* and writes, and what it has decided so far.
TickStart(e) ==
    [buffer |-> session.buffer,
     lineBuffer |-> session.lineBuffer,
     promptRegex |-> session.promptRegex,
     currentPrompt |-> session.currentPrompt,
     potentialPromptDetected |-> ex[e].potentialPromptDetected,
     potentialPromptTime |-> ex[e].potentialPromptTime,
     lastDataTime |-> ex[e].lastDataTime,
     lastBufferLength |-> ex[e].lastBufferLength,
     justDismissedPager |-> ex[e].justDismissedPager,
     pageCount |-> ex[e].pageCount,
     done |-> FALSE, success |-> FALSE, errorMessage |-> "",
     branch |-> "wait", wroteSpace |-> FALSE, detected |-> FALSE, marked |-> FALSE]

\* "Track new data arrival"
TrackNewData(st, t) ==
    IF NewDataArrived(st.buffer, st.lastBufferLength)
    THEN [st EXCEPT !.lastDataTime = t,
                    !.lastBufferLength = Len(st.buffer),
                    !.potentialPromptDetected = FALSE,
                    !.potentialPromptTime = 0,
                    !.detected = TRUE]
    ELSE st

\* "Check for pager in buffer", the branch taken when the budget allows it.
DismissPager(st, t) ==
    [st EXCEPT !.buffer = stripPagerArtifacts(st.buffer),
               !.lineBuffer = stripPagerArtifacts(st.lineBuffer),
               !.wroteSpace = TRUE,
               !.pageCount = st.pageCount + 1,
               !.justDismissedPager = TRUE,
               !.lastDataTime = t,
               !.potentialPromptDetected = FALSE,
               !.potentialPromptTime = 0,
               !.branch = "pager"]

\* "Handle pager dismissal artifacts"
StripDismissal(st) ==
    IF st.justDismissedPager
    THEN [st EXCEPT !.buffer = stripPagerDismissalArtifacts(st.buffer),
                    !.lineBuffer = stripPagerDismissalArtifacts(st.lineBuffer),
                    !.justDismissedPager = FALSE]
    ELSE st

\* The confirmation: "Update prompt regex if prompt changed (mode change)" and
\* the completion.
ConfirmPrompt(st, detectedPrompt, changed) ==
    [st EXCEPT !.currentPrompt = IF changed THEN detectedPrompt ELSE @,
               !.promptRegex = IF changed THEN buildPromptRegex(detectedPrompt) ELSE @,
               !.done = TRUE, !.success = TRUE, !.branch = "confirm"]

\* The re-check of the tail once the quiet period is over.
RecheckPrompt(st, detectedPrompt) ==
    IF IsPrompt(detectedPrompt)
    THEN ConfirmPrompt(st, detectedPrompt, PromptChanged(st.promptRegex, detectedPrompt))
    ELSE [st EXCEPT !.potentialPromptDetected = FALSE, !.potentialPromptTime = 0]

\* "Check for potential prompt and confirm after quiet period"
PotentialPrompt(st, t) ==
    IF ~st.potentialPromptDetected
    THEN IF LooksLikePrompt(st.buffer)
         THEN [st EXCEPT !.potentialPromptDetected = TRUE,
                         !.potentialPromptTime = t,
                         !.marked = TRUE,
                         !.branch = "mark"]
         ELSE st
    ELSE IF st.potentialPromptTime # 0 /\ QuietPeriodOver(t - st.potentialPromptTime)
    THEN RecheckPrompt(st, tryDetectPromptFromTail(st.buffer))
    ELSE st

\* "Check for idle timeout"
IdleCheck(st, t) ==
    IF IdleTimeoutOver(t - st.lastDataTime) /\ LooksLikePrompt(st.buffer)
    THEN [st EXCEPT !.done = TRUE, !.success = TRUE, !.branch = "idle"]
    ELSE st

\* "Check if we have a definitive prompt match"
KnownPromptAtEnd(st) ==
    st.promptRegex # NullRegex /\ bufferEndsWithPrompt(st.buffer, st.promptRegex)

\* The last check of a tick: the idle timeout, unless the tick is over.
AfterPotential(s8, t) == IF s8.done THEN s8 ELSE IdleCheck(s8, t)

\* After the dismissal artifacts are handled: the definitive prompt match,
\* then the potential prompt.
AfterDismissal(s5, t) ==
    IF KnownPromptAtEnd(s5)
    THEN [s5 EXCEPT !.done = TRUE, !.success = TRUE, !.branch = "regex"]
    ELSE AfterPotential(PotentialPrompt(s5, t), t)

\* After new data is tracked: the pager, which ends the tick when it is
\* dismissed.
AfterNewData(s3, t) ==
    IF containsPagerPrompt(s3.buffer) /\ PagerBudgetLeft(s3.pageCount)
    THEN DismissPager(s3, t)
    ELSE AfterDismissal(StripDismissal(s3), t)

\* After the timeout and cancellation checks.
AfterPreCheck(s0, pre, t) ==
    IF pre = "timeout"
    THEN [s0 EXCEPT !.done = TRUE, !.errorMessage = "Command timed out", !.branch = "timeout"]
    ELSE IF pre = "cancel"
    THEN [s0 EXCEPT !.done = TRUE, !.errorMessage = "Execution cancelled", !.branch = "cancel"]
    ELSE AfterNewData(TrackNewData(s0, t), t)

\* processBuffer at time t for call e: what the tick decides.
ProcessBuffer(e, t) ==
    AfterPreCheck(TickStart(e),
                  PreCheck(t - ex[e].startTime, ex[e].commandTimeout, cancelled), t)

(***************************************************************************)
(* SshExecutionService.createResult.                                       *)
(***************************************************************************)
\* `session.promptRegex.test(lastLine) || PromptDetector.isLikelyPrompt(lastLine.trim())`
IsPromptLine(lastLine, promptRegex) ==
    RegexTest(promptRegex, lastLine) \/ isLikelyPrompt(Trim(lastLine))

\* "Remove prompt from end"
PopPrompt(lines, promptRegex) ==
    IF lines # << >> /\ promptRegex # NullRegex /\ IsPromptLine(lines[Len(lines)], promptRegex)
    THEN SubSeq(lines, 1, Len(lines) - 1)
    ELSE lines

\* A result that keeps the echo line.
KeepEcho(lines) == lines

\* "Remove command echo from beginning (first line)"; split never gives an
\* empty array.
ShiftEcho(lines) == Tail(lines)

\* The output text createResult builds from the buffer.
CleanOutput(buffer, promptRegex) ==
    stripPagerArtifacts(JoinLines(PopPrompt(ShiftEcho(SplitLines(normalize(buffer))),
                                            promptRegex)))

\* The session fields createResult assigns.
ResultSession(sess) ==
    [sess EXCEPT !.commandSentTime = 0,
                 !.suppressOutput = TRUE,
                 !.lineBuffer = << >>,
                 !.preCommandBuffer = << >>]

\* createResult(session, success, errorMessage, duration)
createResult(sess, success, errorMessage, duration) ==
    [success |-> success,
     errorMessage |-> errorMessage,
     output |-> CleanOutput(sess.buffer, sess.promptRegex),
     duration |-> duration]

\* A completion by idle timeout that leaves the interval running.
KeepIntervalOnIdle(branch) == branch = "idle"

\* clearInterval(checkInterval): the state of the call's interval timer after
\* a tick that completed the command.
ClearInterval(branch) == FALSE

(***************************************************************************)
(* Actions of the session engine.                                          *)
(***************************************************************************)
Active(e) == ex[e].pc = "drain" \/ ex[e].timerOn

\* The calls of execute made so far.
RECURSIVE SumCalls(_)
SumCalls(S) ==
    IF S = {} THEN 0
    ELSE LET e == CHOOSE x \in S : TRUE IN gh[e].calls + SumCalls(S \ {e})

Calls == SumCalls(Execs)

\* `timeout || this.timeouts.commandTimeout`
CommandTimeoutOf(timeout) == IF timeout = 0 THEN DefaultCommandTimeout ELSE timeout

\* execute(hostId, command, timeout) up to its setTimeout: the session exists,
\* so the promise is created, output is suppressed, the in-flight marker is
\* reset and the 100 ms drain timer is started.  When no timer is pending no
\* time stamp is retained anywhere, so the clock is read as 1 again: only
\* differences of Date.now() are ever used.
Execute(e, timeout) ==
    /\ ~Active(e)
    /\ Calls < MaxCommands
    /\ session' = [session EXCEPT !.suppressOutput = TRUE, !.commandSentTime = 0]
    /\ ex' = [ex EXCEPT ![e] = [IdleExec EXCEPT !.pc = "drain",
                                               !.startTime = now,
                                               !.commandTimeout = CommandTimeoutOf(timeout),
                                               !.timerDue = now + DrainDelay]]
    /\ gh' = [gh EXCEPT ![e] = [IdleGhost EXCEPT !.calls = gh[e].calls + 1]]
    /\ now' = IF \A f \in Execs : ~Active(f) THEN 1 ELSE now
    /\ UNCHANGED <<cancelled, res, sc, bt, ev, cn, pool, tp, dev, cx>>

\* A caller that awaits each execute before it issues the next one (the loop
\* over the command lines of a host, the send steps of a script).
SerialExecute(timeout) ==
    /\ \A f \in Execs : ~Active(f)
    /\ Execute(1, timeout)

\* The ssh:execute IPC handler: it calls execute whenever the renderer asks.
IpcExecute(e, timeout) == Execute(e, timeout)

\* A drain callback that keeps the buffer.
KeptBuffer(buffer) == buffer

\* `session.buffer = ''` of the drain callback.
DrainedBuffer(buffer) == << >>

\* The callback of the drain setTimeout: clear the buffers, mark the command
\* in flight, write it to the shell, initialize the closure variables and
\* start the poll interval.
Drain(e) ==
    /\ ex[e].pc = "drain"
    /\ now >= ex[e].timerDue
    /\ session' = [session EXCEPT !.buffer = DrainedBuffer(session.buffer),
                                 !.lineBuffer = << >>,
                                 !.preCommandBuffer = << >>,
                                 !.commandSentTime = now,
                                 !.stale = IF DrainedBuffer(session.buffer) = << >> THEN 0 ELSE @]
    /\ ex' = [ex EXCEPT ![e].pc = "poll",
                        ![e].potentialPromptDetected = FALSE,
                        ![e].potentialPromptTime = 0,
                        ![e].lastDataTime = now,
                        ![e].lastBufferLength = 0,
                        ![e].justDismissedPager = FALSE,
                        ![e].pageCount = 0,
                        ![e].timerOn = TRUE,
                        ![e].timerDue = now + pollInterval]
    /\ gh' = [gh EXCEPT ![e].bufferAtWrite = DrainedBuffer(session.buffer),
                        ![e].staleAtWrite = session.stale,
                        ![e].arrived = FALSE]
    /\ UNCHANGED <<now, cancelled, res, sc, bt, ev, cn, pool, tp, dev, cx>>

\* What a tick leaves in the history of call e; knownMatch tells whether the
\* buffer the tick decided on ends with the known prompt.
TickRecord(e, o, knownMatch) ==
    [branch |-> o.branch,
     elapsed |-> now - ex[e].startTime,
     arrived |-> gh[e].arrived,
     detected |-> o.detected,
     wasPending |-> ex[e].potentialPromptDetected,
     pagerSeen |-> containsPagerPrompt(session.buffer),
     budgetLeft |-> PagerBudgetLeft(ex[e].pageCount),
     wroteSpace |-> o.wroteSpace,
     stripped |-> Len(o.buffer) < Len(session.buffer),
     marked |-> o.marked,
     promptLike |-> /\ o.branch \notin {"timeout", "cancel", "pager"}
                    /\ (knownMatch \/ LooksLikePrompt(o.buffer)),
     knownMatch |-> knownMatch,
     sinceMark |-> IF ex[e].potentialPromptDetected THEN now - ex[e].potentialPromptTime ELSE 0,
     arrivedSinceMark |-> gh[e].arrivedSinceMark,
     wasCancelled |-> cancelled]

TickHistory(e, o) == TickRecord(e, o, KnownPromptAtEnd(o))

\* The session after a tick that decided o.
TickSession(o) ==
    [session EXCEPT !.buffer = o.buffer,
                    !.lineBuffer = o.lineBuffer,
                    !.promptRegex = o.promptRegex,
                    !.currentPrompt = o.currentPrompt]

\* The effect of a tick of call e that decided o and left h in the history:
\* the closure variables, and createResult with resolve when the tick
\* completes the command.
Tick(e, o, h) ==
    /\ session' = IF o.done THEN ResultSession(TickSession(o)) ELSE TickSession(o)
    /\ ex' = [ex EXCEPT
           ![e].potentialPromptDetected = o.potentialPromptDetected,
           ![e].potentialPromptTime = o.potentialPromptTime,
           ![e].lastDataTime = o.lastDataTime,
           ![e].lastBufferLength = o.lastBufferLength,
           ![e].justDismissedPager = o.justDismissedPager,
           ![e].pageCount = o.pageCount,
           ![e].timerDue = now + pollInterval,
           ![e].timerOn = IF o.done THEN ClearInterval(o.branch) ELSE TRUE,
           ![e].pc = IF o.done THEN "done" ELSE @,
           ![e].result = IF o.done /\ ex[e].resolved = 0
                         THEN createResult(TickSession(o), o.success, o.errorMessage,
                                           now - ex[e].startTime)
                         ELSE @,
           ![e].resolved = IF o.done /\ @ < 2 THEN @ + 1 ELSE @]
    /\ gh' = [gh EXCEPT
           ![e].tick = h,
           ![e].ticks = IF @ < 2 THEN @ + 1 ELSE @,
           ![e].arrived = FALSE,
           ![e].arrivedSinceMark = IF o.marked \/ ~o.potentialPromptDetected THEN FALSE ELSE @,
           ![e].everPromptLike = @ \/ h.promptLike,
           ![e].spaces = IF o.wroteSpace THEN @ + 1 ELSE @,
           ![e].staleAtResult = IF o.done THEN session.stale ELSE @]

\* What the tick of call e decides now.
Decision(e) == ProcessBuffer(e, now)

\* One firing of the poll interval of call e: processBuffer, and createResult
\* with resolve when the tick completes the command.
processBuffer(e) ==
    /\ ex[e].timerOn
    /\ now >= ex[e].timerDue
    /\ Tick(e, Decision(e), TickHistory(e, Decision(e)))
    /\ UNCHANGED <<now, cancelled, res, sc, bt, ev, cn, pool, tp, dev, cx>>

\* The line without the CR at its end (the \r? of /\r?\n/).
DropCR(line) ==
    IF line # << >> /\ line[Len(line)] = CR
    THEN SubSeq(line, 1, Len(line) - 1)
    ELSE line

\* The pieces of s.split(/\r?\n/), given those of s.split('\n').
DropCRs(lines) ==
    [k \in 1..Len(lines) |-> IF k < Len(lines) THEN DropCR(lines[k]) ELSE lines[k]]

\* The [0-9;]* of ANSI_REGEX from position q.
RECURSIVE AnsiParams(_, _)
AnsiParams(s, q) ==
    IF q <= Len(s) /\ s[q] \in Digits \cup {";"} THEN AnsiParams(s, q + 1) ELSE q

\* ANSI_REGEX tried at p with its parameters ending before q: the position
\* after the match, or 0.
AnsiEnd(s, p, q) ==
    IF LitAt(s, p, <<ESC, "[">>) /\ q <= Len(s) /\ s[q] \in Letters THEN q + 1 ELSE 0

RECURSIVE SanitizeFrom(_, _)
\* sanitize from position p on: the ANSI sequences and the other control
\* characters are left out.
SanitizeAt(s, p, end) ==
    IF end # 0 THEN SanitizeFrom(s, end)
    ELSE IF s[p] \in {BACKSPACE, BELL, ESC} THEN SanitizeFrom(s, p + 1)
    ELSE <<s[p]>> \o SanitizeFrom(s, p + 1)

SanitizeFrom(s, p) ==
    IF p > Len(s) THEN << >> ELSE SanitizeAt(s, p, AnsiEnd(s, p, AnsiParams(s, p + 2)))

\* TerminalOutputProcessor.sanitize
sanitize(input) == SanitizeFrom(input, 1)

\* The loop of emitCompleteLines over the complete lines.
EmittedLines(lines) ==
    [k \in 1..Len(SelectSeq(lines, LAMBDA l : Len(l) > 0 \/ Len(lines) > 1)) |->
        sanitize(SelectSeq(lines, LAMBDA l : Len(l) > 0 \/ Len(lines) > 1)[k])]

\* emitCompleteLines, given the pieces of the line buffer.
EmitPieces(sess, lines) ==
    IF Len(lines) <= 1 THEN sess
    ELSE [sess EXCEPT !.lineBuffer = lines[Len(lines)],
                      !.emitted = @ \o EmittedLines(SubSeq(lines, 1, Len(lines) - 1))]

\* emitCompleteLines(session)
emitCompleteLines(sess) == EmitPieces(sess, DropCRs(SplitLines(sess.lineBuffer)))

\* `if (!session.suppressOutput) this.emitCompleteLines(session)`
EmitUnlessSuppressed(sess) ==
    IF sess.suppressOutput THEN sess ELSE emitCompleteLines(sess)

\* A 'data' handler that takes every prompt it detects, also when one is
\* known.
DataSessionRedetects(text, inFlight, prompt) ==
    [session EXCEPT
        !.buffer = @ \o text,
        !.lineBuffer = IF inFlight THEN @ \o text ELSE @,
        !.preCommandBuffer = IF inFlight THEN @ ELSE @ \o text,
        !.stale = IF inFlight THEN @ ELSE @ + 1,
        !.received = IF inFlight THEN @ + 1 ELSE @,
        !.currentPrompt = IF prompt # << >> THEN prompt ELSE @,
        !.promptRegex = IF prompt # << >> THEN buildPromptRegex(prompt) ELSE @]

\* A 'data' handler that emits every chunk as it comes, as the handler of
\* SshConnectionPool does.
DataSessionEmitsChunk(text, inFlight, prompt) ==
    [session EXCEPT
        !.buffer = @ \o text,
        !.lineBuffer = IF inFlight THEN @ \o text ELSE @,
        !.preCommandBuffer = IF inFlight THEN @ ELSE @ \o text,
        !.emitted = @ \o <<sanitize(text)>>,
        !.stale = IF inFlight THEN @ ELSE @ + 1,
        !.received = IF inFlight THEN @ + 1 ELSE @,
        !.currentPrompt = IF session.promptRegex = NullRegex /\ prompt # << >>
                          THEN prompt ELSE @,
        !.promptRegex = IF session.promptRegex = NullRegex /\ prompt # << >>
                        THEN buildPromptRegex(prompt) ELSE @]

\* The session after the 'data' handler has appended text: the buffers, the
\* lines emitted unless output is suppressed, and the prompt when none is
\* known yet (prompt is what tryDetectPrompt finds).
DataSession(text, inFlight, prompt) ==
    EmitUnlessSuppressed(
      [session EXCEPT
        !.buffer = @ \o text,
        !.lineBuffer = IF inFlight THEN @ \o text ELSE @,
        !.preCommandBuffer = IF inFlight THEN @ ELSE @ \o text,
        !.stale = IF inFlight THEN @ ELSE @ + 1,
        !.received = IF inFlight THEN @ + 1 ELSE @,
        !.currentPrompt = IF session.promptRegex = NullRegex /\ prompt # << >>
                          THEN prompt ELSE @,
        !.promptRegex = IF session.promptRegex = NullRegex /\ prompt # << >>
                        THEN buildPromptRegex(prompt) ELSE @])

\* The 'data' handler of the shell stream.
OnData(text) ==
    /\ IF session.commandSentTime > 0
       THEN session.received < MaxChunks
       ELSE session.stale < MaxStale /\ \E e \in Execs : Active(e) \/ gh[e].calls > 0
    /\ session' = DataSession(text, session.commandSentTime > 0,
                              tryDetectPrompt(session.buffer \o text))
    /\ gh' = [e \in Execs |->
                 [gh[e] EXCEPT !.arrived = IF ex[e].timerOn THEN TRUE ELSE @,
                               !.arrivedSinceMark =
                                   IF ex[e].timerOn /\ ex[e].potentialPromptDetected THEN TRUE ELSE @]]
    /\ UNCHANGED <<now, cancelled, ex, res, sc, bt, ev, cn, pool, tp, dev, cx>>

\* cancelExecution(), called by the ssh:cancel handler.
cancelExecution ==
    /\ ~cancelled
    /\ cancelled' = TRUE
    /\ UNCHANGED <<now, session, ex, gh, res, sc, bt, ev, cn, pool, tp, dev, cx>>

\* Time advances by one unit while a timer is pending; a timer fires at most
\* MaxLate units after it is due.
TimePasses ==
    /\ \E e \in Execs : Active(e)
    /\ \A e \in Execs : Active(e) => now < ex[e].timerDue + MaxLate
    /\ now' = now + 1
    /\ UNCHANGED <<session, cancelled, ex, gh, res, sc, bt, ev, cn, pool, tp, dev, cx>>

Next ==
    \/ \E timeout \in TimeoutArgs : SerialExecute(timeout)
    \/ \E e \in Execs : Drain(e)
    \/ \E e \in Execs : processBuffer(e)
    \/ \E text \in Chunks : OnData(text)
    \/ cancelExecution
    \/ TimePasses

Spec == Init /\ [][Next]_vars

\* The same engine driven by the ssh:execute IPC handler, which calls execute
\* for every request of the renderer without waiting for the previous one.
NextIpc ==
    \/ \E e \in Execs : IpcExecute(e, 0)
    \/ \E e \in Execs : Drain(e)
    \/ \E e \in Execs : processBuffer(e)
    \/ \E text \in IpcChunks : OnData(text)
    \/ cancelExecution
    \/ TimePasses

SpecIpc == Init /\ [][NextIpc]_vars

(***************************************************************************)
(* SshExecutionService.connect from the creation of the session on:        *)
(* initializeSession with its interval timer, the 'data' events of the     *)
(* banner and the first prompt, and the commands that follow.              *)
(*   cn.pc       the promise of connect: "pending", "resolved", "rejected" *)
(*   cn.timerOn  the interval of initializeSession is running              *)
(*   cn.ticks    the number of its ticks (history)                         *)
(* connectionTimeout is scaled down like the other timeouts.               *)
(***************************************************************************)
connectionTimeout == 3
MaxBanner == 2

\* What the remote shell sends in one 'data' event of these runs: a line of
\* the banner or of output, and the prompt.
ConnectChunks == { <<"a", LF>>, <<"h", "#">> }

\* The session as the shell callback of connect creates it.
NewSession ==
    [InitialSession EXCEPT !.promptRegex = NullRegex, !.currentPrompt = << >>]

\* The state after the shell callback: the session is created, its handlers
\* are registered, initializeSession has written the newline and started its
\* interval.
ConnectInit ==
    /\ cx = NoContext
    /\ now = 1
    /\ session = NewSession
    /\ cancelled = FALSE
    /\ ex = [e \in Execs |-> IdleExec]
    /\ gh = [e \in Execs |-> IdleGhost]
    /\ res = NoRes
    /\ sc = NoScript
    /\ bt = NoBatch
    /\ ev = NoEval
    /\ pool = NoPool
    /\ tp = NoText
    /\ dev = NoDevice
    /\ cn = [pc |-> "pending", error |-> "", timerOn |-> TRUE, startTime |-> 1,
             timerDue |-> 1 + pollInterval, ticks |-> 0]

\* resolve() and reject() of the promise of connect: the first call settles
\* it.
Settle(c, pc, error) ==
    IF c.pc = "pending" THEN [c EXCEPT !.pc = pc, !.error = error] ELSE c

\* A callback after initializeSession that leaves the buffers as they are.
KeepsBuffers(sess) == sess

\* The callback connect chains to initializeSession: "Clear ALL buffers but
\* keep output suppressed".
ClearBuffers(sess) ==
    [sess EXCEPT !.buffer = << >>, !.lineBuffer = << >>, !.stale = 0]

\* initializeSession resolves, and with it connect.
InitResolves(sess) ==
    /\ session' = ClearBuffers([sess EXCEPT !.lineBuffer = << >>])
    /\ cn' = [Settle(cn, "resolved", "") EXCEPT !.timerOn = FALSE, !.ticks = @ + 1]

\* The session with the prompt that checkPrompt detects on timeout.
DetectedOnTimeout(prompt) ==
    [session EXCEPT !.currentPrompt = prompt,
                    !.promptRegex = buildPromptRegex(prompt)]

\* checkPrompt past the timeout, prompt being what tryDetectPrompt finds.
InitTimesOut(prompt) ==
    IF prompt # << >>
    THEN InitResolves(DetectedOnTimeout(prompt))
    ELSE /\ session' = session
         /\ cn' = [Settle(cn, "rejected", "Failed to detect initial prompt")
                      EXCEPT !.timerOn = FALSE, !.ticks = @ + 1]

\* One firing of the interval of initializeSession.
checkPrompt ==
    /\ cn.timerOn
    /\ now >= cn.timerDue
    /\ IF session.promptRegex # NullRegex
       THEN InitResolves(session)
       ELSE IF now - cn.startTime > connectionTimeout
       THEN InitTimesOut(tryDetectPrompt(session.buffer))
       ELSE /\ session' = session
            /\ cn' = [cn EXCEPT !.timerDue = now + pollInterval, !.ticks = @ + 1]
    /\ UNCHANGED <<now, cancelled, ex, gh, res, sc, bt, ev, pool, tp, dev, cx>>

\* The 'error' handler of the client while connect is pending.
clientError ==
    /\ cn.pc = "pending"
    /\ cn' = Settle(cn, "rejected", "client error")
    /\ UNCHANGED <<now, session, cancelled, ex, gh, res, sc, bt, ev, pool, tp, dev, cx>>

\* The 'data' handler before the first command: the banner, the first
\* prompt and whatever follows them.
ConnectData(text) ==
    /\ Calls = 0
    /\ session.stale < MaxBanner
    /\ session' = DataSession(text, FALSE, tryDetectPrompt(session.buffer \o text))
    /\ UNCHANGED <<now, cancelled, ex, gh, res, sc, bt, ev, cn, pool, tp, dev, cx>>

\* Time advances while the interval of initializeSession is running.
ConnectTime ==
    /\ cn.timerOn
    /\ now < cn.timerDue + MaxLate
    /\ now' = now + 1
    /\ UNCHANGED <<session, cancelled, ex, gh, res, sc, bt, ev, cn, pool, tp, dev, cx>>

\* connect, and after it has resolved the commands of a caller that awaits
\* each of them.
NextConnect ==
    \/ checkPrompt
    \/ clientError
    \/ \E text \in ConnectChunks : ConnectData(text)
    \/ ConnectTime
    \/ cn.pc = "resolved" /\ SerialExecute(0)
    \/ Drain(1)
    \/ processBuffer(1)
    \/ \E text \in ConnectChunks : OnData(text)
    \/ TimePasses

SpecConnect == ConnectInit /\ [][NextConnect]_vars

(***************************************************************************)
(* SshConnectionPool: the connections of one host key, the execute calls   *)
(* on them and the cleanup task, in units of 60 s.                         *)
(*   pool.map       the connection that `connections` holds for the key,   *)
(*                  0 when it holds none                                   *)
(*   pool.conns     the PooledConnection objects made so far: whether      *)
(*                  shell and client are open, inUse, lastUsed             *)
(*   pool.made      how many there are                                     *)
(*   pool.ex        per execute call: where it is, the connection it got   *)
(*                  from getConnection, startTime and commandTimeout       *)
(*   pool.sweepDue  when the cleanup interval fires next                   *)
(*   pool.calls     the calls of execute made so far                       *)
(*   pool.reaped    the connections the cleanup task has removed (history) *)
(***************************************************************************)
CleanupInterval == 1
PoolIdleTimeout == 5
PoolCommandTimeout == 1
LongCommandTimeout == 8
MaxTime == 10
MaxConns == 2
MaxPoolCalls == 3

PoolExecs == {1, 2}

\* The timeout argument of execute: 0 stands for an omitted one.
PoolTimeoutArgs == {0, LongCommandTimeout}

NoConn == [open |-> FALSE, inUse |-> FALSE, lastUsed |-> 0]

IdlePoolExec == [pc |-> "idle", conn |-> 0, startTime |-> 0, commandTimeout |-> 0]

PoolInit ==
    /\ cx = NoContext
    /\ now = 1
    /\ session = InitialSession
    /\ cancelled = FALSE
    /\ ex = [e \in Execs |-> IdleExec]
    /\ gh = [e \in Execs |-> IdleGhost]
    /\ cn = Connected
    /\ tp = NoText
    /\ dev = NoDevice
    /\ res = NoRes
    /\ sc = NoScript
    /\ bt = NoBatch
    /\ ev = NoEval
    /\ pool = [pc |-> "on", map |-> 0, conns |-> [c \in 1..MaxConns |-> NoConn],
               made |-> 0, ex |-> [e \in PoolExecs |-> IdlePoolExec],
               sweepDue |-> 1 + CleanupInterval, calls |-> 0, reaped |-> {}]

\* `connection && this.isConnectionValid(connection)`: the socket of a
\* connection in the map is readable.
HasValidConnection(p) == p.map # 0 /\ p.conns[p.map].open

\* The call e running a command on connection c from now on.
Runs(p, e, c, timeout) ==
    [p EXCEPT !.ex[e] = [pc |-> "running", conn |-> c, startTime |-> now,
                         commandTimeout |-> IF timeout = 0 THEN PoolCommandTimeout
                                            ELSE timeout]]

\* removeConnection(key): close shell and client, delete the entry.
removeConnection(p) ==
    IF p.map = 0 THEN p
    ELSE [p EXCEPT !.conns[p.map].open = FALSE, !.map = 0]

\* releaseConnection(host)
releaseConnection(p) ==
    IF p.map = 0 THEN p
    ELSE [p EXCEPT !.conns[p.map].inUse = FALSE, !.conns[p.map].lastUsed = now]

\* execute(host, command, timeout) up to the end of getConnection when the
\* map holds a valid connection, which is marked in use and used; up to
\* createConnection otherwise, after the invalid connection was removed.
PoolExecute(e, timeout) ==
    /\ pool.ex[e].pc = "idle"
    /\ pool.calls < MaxPoolCalls
    /\ IF HasValidConnection(pool)
       THEN pool' = Runs([pool EXCEPT !.conns[pool.map].lastUsed = now,
                                      !.conns[pool.map].inUse = TRUE,
                                      !.calls = @ + 1],
                         e, pool.map, timeout)
       ELSE /\ pool.made + Cardinality({f \in PoolExecs : pool.ex[f].pc = "creating"}) < MaxConns
            /\ pool' = [removeConnection(pool) EXCEPT
                          !.calls = @ + 1,
                          !.ex[e] = [IdlePoolExec EXCEPT !.pc = "creating",
                                                         !.commandTimeout = timeout]]
    /\ UNCHANGED <<now, session, cancelled, ex, gh, res, sc, bt, ev, cn, tp, dev, cx>>

\* createConnection resolves: the new connection, in use, is put into the
\* map, and execute writes the command and starts its poll interval.
ConnectionCreated(e) ==
    /\ pool.ex[e].pc = "creating"
    /\ pool' = Runs([pool EXCEPT !.made = @ + 1,
                                 !.conns[pool.made + 1] =
                                     [open |-> TRUE, inUse |-> TRUE, lastUsed |-> now],
                                 !.map = pool.made + 1],
                    e, pool.made + 1, pool.ex[e].commandTimeout)
    /\ UNCHANGED <<now, session, cancelled, ex, gh, res, sc, bt, ev, cn, tp, dev, cx>>

\* createConnection rejects (timeout, client error), and so does execute.
ConnectionFails(e) ==
    /\ pool.ex[e].pc = "creating"
    /\ pool' = [pool EXCEPT !.ex[e] = IdlePoolExec]
    /\ UNCHANGED <<now, session, cancelled, ex, gh, res, sc, bt, ev, cn, tp, dev, cx>>

\* A poll tick of execute that completes the command, by a prompt at any
\* time or by the timeout: the connection of the key is released and the
\* promise resolved.
PoolResolves(e) ==
    /\ pool.ex[e].pc = "running"
    /\ pool' = [releaseConnection(pool) EXCEPT !.ex[e] = IdlePoolExec]
    /\ UNCHANGED <<now, session, cancelled, ex, gh, res, sc, bt, ev, cn, tp, dev, cx>>

\* `!connection.inUse && (now - connection.lastUsed) > this.config.idleTimeout`
Sweeps(p) ==
    /\ p.map # 0
    /\ ~p.conns[p.map].inUse
    /\ now - p.conns[p.map].lastUsed > PoolIdleTimeout

\* The callback of the cleanup interval.
cleanupTask ==
    /\ now >= pool.sweepDue
    /\ pool' = IF Sweeps(pool)
               THEN [removeConnection(pool) EXCEPT !.sweepDue = @ + CleanupInterval,
                                                   !.reaped = @ \cup {pool.map}]
               ELSE [pool EXCEPT !.sweepDue = @ + CleanupInterval]
    /\ UNCHANGED <<now, session, cancelled, ex, gh, res, sc, bt, ev, cn, tp, dev, cx>>

\* Time advances by one unit: the cleanup interval has fired if it was due,
\* and so has the tick of every command whose timeout was reached.
PoolTime ==
    /\ now < MaxTime
    /\ now < pool.sweepDue
    /\ \A e \in PoolExecs :
          pool.ex[e].pc = "running" => now < pool.ex[e].startTime + pool.ex[e].commandTimeout
    /\ now' = now + 1
    /\ UNCHANGED <<session, cancelled, ex, gh, res, sc, bt, ev, cn, pool, tp, dev, cx>>

NextPool ==
    \/ \E e \in PoolExecs, timeout \in PoolTimeoutArgs : PoolExecute(e, timeout)
    \/ \E e \in PoolExecs : ConnectionCreated(e)
    \/ \E e \in PoolExecs : ConnectionFails(e)
    \/ \E e \in PoolExecs : PoolResolves(e)
    \/ cleanupTask
    \/ PoolTime

SpecPool == PoolInit /\ [][NextPool]_vars

(***************************************************************************)
(* One command whose output the device pages.  The device sends the echo   *)
(* of the command and the first page, ended by a pager marker, and waits;  *)
(* once execute has written the space it clears the marker with a carriage *)
(* return, a run of dev.pad blanks and a carriage return, and sends the    *)
(* rest of the output and the prompt.  The stream reaches the 'data'       *)
(* handler at any times, cut into events at any places but inside the      *)
(* marker.                                                                 *)
(***************************************************************************)
MaxPad == 2

\* The echo and the first page, which is empty, with its marker.
FirstPage == <<"c", LF>> \o PagerMore

\* What follows the marker: the second page and the prompt.
SecondPage == <<"b", LF, "h", "#">>

\* The sequence a device clears the marker with.
ClearingSequence(pad) == <<CR>> \o [i \in 1..pad |-> " "] \o <<CR>>

\* All the device sends for the command.
PagedStream(pad) == FirstPage \o ClearingSequence(pad) \o SecondPage

\* What a device that does not page sends for the same command.
UnpagedStream == <<"c", LF>> \o SecondPage

\* How much of its output the device is ready to send: up to the marker
\* until the space has been written to the shell.
Ready == IF gh[1].spaces = 0 THEN Len(FirstPage) ELSE Len(PagedStream(dev.pad))

PagerInit ==
    /\ cx = NoContext
    /\ now = 1
    /\ session = InitialSession
    /\ cancelled = FALSE
    /\ ex = [e \in Execs |-> IdleExec]
    /\ gh = [e \in Execs |-> IdleGhost]
    /\ cn = Connected
    /\ pool = NoPool
    /\ tp = NoText
    /\ res = NoRes
    /\ sc = NoScript
    /\ bt = NoBatch
    /\ ev = NoEval
    /\ \E pad \in 1..MaxPad : dev = [pad |-> pad, sent |-> 0]

\* The cut after the first k characters falls inside the marker.
CutsMarker(k) == Len(FirstPage) - Len(PagerMore) < k /\ k < Len(FirstPage)

\* A 'data' event with the next n characters of the device's output, while
\* the command is in flight.
DeviceData(n) ==
    /\ session.commandSentTime > 0
    /\ dev.sent + n <= Ready
    /\ ~CutsMarker(dev.sent + n)
    /\ session' = DataSession(SubSeq(PagedStream(dev.pad), dev.sent + 1, dev.sent + n),
                              TRUE, << >>)
    /\ gh' = [e \in Execs |->
                 [gh[e] EXCEPT !.arrived = IF ex[e].timerOn THEN TRUE ELSE @,
                               !.arrivedSinceMark =
                                   IF ex[e].timerOn /\ ex[e].potentialPromptDetected THEN TRUE ELSE @]]
    /\ dev' = [dev EXCEPT !.sent = @ + n]
    /\ UNCHANGED <<now, cancelled, ex, res, sc, bt, ev, cn, pool, tp, cx>>

NextPager ==
    \/ Calls = 0 /\ SerialExecute(0)
    \/ Drain(1)
    \/ processBuffer(1)
    \/ \E n \in 1..Len(PagedStream(MaxPad)) : DeviceData(n)
    \/ TimePasses

SpecPager == PagerInit /\ [][NextPager]_vars

(***************************************************************************)
(* The functions of TerminalOutputProcessor applied to given texts.        *)
(*   tp.fn      "strip" for stripPagerArtifacts, "normalize" for normalize *)
(*   tp.input   the text given                                             *)
(*   tp.output  the text returned; tp.sawPager the flag returned with it   *)
(*   tp.again   what normalize returns for tp.output                       *)
(***************************************************************************)
MaxPieces == 2
MaxText == 3

\* The pieces the texts given to stripPagerArtifacts are made of: the pager
\* markers in their variants, and output.
PagerPieces ==
    { PagerMore, <<"-", "-", " ", "M", "o", "r", "e", " ", "-", "-">>, <<"-", "-", "M", "o", "r", "e", "-", "-", " ", "(", "5", "0", "%", ")">>, PagerArrowLit,
      PagerAnyKeyLit, PagerSpaceLit, <<"a">>, <<LF>>, <<" ", "b">> }

RECURSIVE Concat(_)
Concat(pieces) ==
    IF pieces = << >> THEN << >> ELSE Head(pieces) \o Concat(Tail(pieces))

PagerTexts ==
    { Concat(pieces) : pieces \in UNION { [1..n -> PagerPieces] : n \in 1..MaxPieces } }

\* The texts given to normalize.
PlainTexts == UNION { [1..n -> {"a", " ", LF, CR}] : n \in 1..MaxText }

RECURSIVE SawPatterns(_, _)
\* The sawPager of the loop over pagerPatterns from pattern number i.
SawPatterns(text, i) ==
    IF i > Len(PagerPatterns) THEN FALSE
    ELSE \/ NextMatch(PagerPatterns[i], text, 1) > 0
         \/ SawPatterns(ReplaceAllFrom(PagerPatterns[i], text, 1), i + 1)

\* stripPagerArtifacts(text).sawPager
sawPager(text) ==
    containsPagerPrompt(text) \/ SawPatterns(ReplacePagerOnce(text), 1)

TextInit ==
    /\ cx = NoContext
    /\ now = 1
    /\ session = InitialSession
    /\ cancelled = FALSE
    /\ ex = [e \in Execs |-> IdleExec]
    /\ gh = [e \in Execs |-> IdleGhost]
    /\ cn = Connected
    /\ pool = NoPool
    /\ dev = NoDevice
    /\ res = NoRes
    /\ sc = NoScript
    /\ bt = NoBatch
    /\ ev = NoEval
    /\ \/ \E text \in PagerTexts :
            tp = [NoText EXCEPT !.pc = "input", !.fn = "strip", !.input = text]
       \/ \E text \in PlainTexts :
            tp = [NoText EXCEPT !.pc = "input", !.fn = "normalize", !.input = text]

\* TerminalOutputProcessor.stripPagerArtifacts(tp.input)
StripPager ==
    /\ tp.pc = "input"
    /\ tp.fn = "strip"
    /\ tp' = [tp EXCEPT !.pc = "done",
                        !.output = stripPagerArtifacts(tp.input),
                        !.sawPager = sawPager(tp.input)]
    /\ UNCHANGED <<now, session, cancelled, ex, gh, res, sc, bt, ev, cn, pool, dev, cx>>

\* TerminalOutputProcessor.normalize(tp.input)
Normalize ==
    /\ tp.pc = "input"
    /\ tp.fn = "normalize"
    /\ tp' = [tp EXCEPT !.pc = "once", !.output = normalize(tp.input)]
    /\ UNCHANGED <<now, session, cancelled, ex, gh, res, sc, bt, ev, cn, pool, dev, cx>>

\* TerminalOutputProcessor.normalize applied to what it returned.
NormalizeAgain ==
    /\ tp.pc = "once"
    /\ tp' = [tp EXCEPT !.pc = "done", !.again = normalize(tp.output)]
    /\ UNCHANGED <<now, session, cancelled, ex, gh, res, sc, bt, ev, cn, pool, dev, cx>>

NextText == StripPager \/ Normalize \/ NormalizeAgain

SpecText == TextInit /\ [][NextText]_vars

(***************************************************************************)
(* createResult as a function of the lines the buffer is made of.          *)
(***************************************************************************)
MaxBodyLines == 2

\* The command echo, as the device sends it back.
EchoLines == { <<"l", "s">>, <<"l", "s", " ">> }

\* Lines of command output.
BodyLines == { <<"a">>, << >>, <<"a", "#">>, <<"a", CR, "b">>, PagerMore }

\* Final lines that the prompt matcher of InitialSession matches.
PromptLines == { <<"h", "#">>, <<"h", "#", " ">>, <<"h", "(", "c", ")", "#">> }

\* Line terminators of the device.
LineEnds == { <<LF>>, <<CR, LF>> }

\* The bodies: every list of up to MaxBodyLines of the lines above, and two
\* with the prompt of a pager that PAGER_REGEX does not know.
BodyLists ==
    UNION { [1..n -> BodyLines] : n \in 0..MaxBodyLines }
        \cup { <<PagerAnyKeyLit>>, <<PagerAnyKeyLit, <<"a">>>> }

RECURSIVE ConcatLines(_, _)
ConcatLines(lines, eol) ==
    IF lines = << >> THEN << >>
    ELSE Head(lines) \o eol \o ConcatLines(Tail(lines), eol)

\* session.buffer at completion: echo line, body lines, prompt line.
BufferOf(r) == r.echo \o r.eol \o ConcatLines(r.body, r.eol) \o r.promptLine

ResultInit ==
    /\ SshInit
    /\ sc = NoScript
    /\ \E r \in [pc : {"input"}, echo : EchoLines, body : BodyLists,
                  promptLine : PromptLines, eol : LineEnds,
                  buffer : {<< >>}, output : {<< >>}] :
          res = [r EXCEPT !.buffer = BufferOf(r)]

\* createResult on the session whose buffer is res.buffer.
CreateResult ==
    /\ res.pc = "input"
    /\ LET sess == [InitialSession EXCEPT !.buffer = res.buffer]
       IN  res' = [res EXCEPT !.pc = "done",
                              !.output = createResult(sess, TRUE, "", 0).output]
    /\ UNCHANGED <<now, session, cancelled, ex, gh, sc, bt, ev, cn, pool, tp, dev, cx>>

SpecResult == ResultInit /\ [][CreateResult]_vars

(***************************************************************************)
(* ScriptExecutor.executeSteps and executeStep.                            *)
(*                                                                         *)
(* A step is [type, onError, value, flag, then, else]: value is the        *)
(* message of an exit step, flag the value the condition of an if step     *)
(* evaluates to.  sc.stack holds the active executeSteps calls, innermost  *)
(* last: the list, the number of steps finished and, as history, the       *)
(* result of every step executed.  sc.pending is the result an inner call  *)
(* has returned to the if handler that awaits it.                          *)
(***************************************************************************)
MaxSteps == 3
MaxBlock == 2

Step(type, onError, value, flag, then, else) ==
    [type |-> type, onError |-> onError, value |-> value, flag |-> flag,
     then |-> then, else |-> else]

PrintStep == Step("print", "stop", << >>, TRUE, << >>, << >>)
ExitOkStep == Step("exit", "stop", <<"o", "k">>, TRUE, << >>, << >>)
ExitFailStep == Step("exit", "stop", <<"f", "a", "i", "l">>, TRUE, << >>, << >>)
SendStep == Step("send", "stop", << >>, TRUE, << >>, << >>)
SendContinueStep == Step("send", "continue", << >>, TRUE, << >>, << >>)

LeafSteps == {PrintStep, ExitOkStep, ExitFailStep, SendStep, SendContinueStep}

BlockSteps == {ExitFailStep, SendStep}

ThenBlocks == UNION { [1..n -> BlockSteps] : n \in 1..MaxBlock }

ElseBlocks == { << >>, <<PrintStep>> }

IfSteps ==
    { Step("if", "stop", << >>, flag, then, else) :
        flag \in BOOLEAN, then \in ThenBlocks, else \in ElseBlocks }

Scripts == UNION { [1..n -> LeafSteps \cup IfSteps] : n \in 1..MaxSteps }

\* What sshService.execute gives a send step: "" stands for success, anything
\* else is the errorMessage of a failed result.
SendOutcomes == {"", "Command timed out", "Not connected"}

successResult ==
    [success |-> TRUE, controlFlow |-> "normal", exitMessage |-> << >>, error |-> ""]

errorResult(error) ==
    [success |-> FALSE, controlFlow |-> "normal", exitMessage |-> << >>, error |-> error]

exitResult(message, success) ==
    [success |-> success, controlFlow |-> "exit", exitMessage |-> message, error |-> ""]

\* The result executeSteps returns when it finds the cancelled flag set.
CancelledResult ==
    [success |-> FALSE, controlFlow |-> "exit",
     exitMessage |-> <<"S","c","r","i","p","t"," ","c","a","n","c","e","l","l","e","d">>,
     error |-> ""]

\* ExitCommand.execute
ExitCommand(step) ==
    LET isFailure == \/ Includes(step.value, <<"f", "a", "i", "l">>)
                     \/ Includes(step.value, <<"e", "r", "r", "o", "r">>)
    IN  exitResult(step.value, ~isFailure)

\* SendCommand.execute, given what sshService.execute resolved with.
SendCommand(step, outcome) ==
    IF outcome # ""
    THEN IF step.onError = "continue" THEN successResult ELSE errorResult(outcome)
    ELSE successResult

\* executeStep for the steps that call no nested list.
executeStep(step, outcome) ==
    CASE step.type = "print" -> successResult
      [] step.type = "exit" -> ExitCommand(step)
      [] step.type = "send" -> SendCommand(step, outcome)
      [] OTHER -> successResult

\* IfCommand.execute: the list it hands to executeSteps, << >> when it returns
\* successResult itself.
IfBranch(step) == IF step.flag THEN step.then ELSE step.else

\* A loop that goes on after a failed step.
HaltsOnControlFlowOnly(result) == result.controlFlow # "normal"

\* `result.controlFlow !== 'normal'`, `!result.success`: the result ends the list.
Halts(result) == result.controlFlow # "normal" \/ ~result.success

Frame(steps) == [steps |-> steps, i |-> 0, ran |-> << >>]

ScriptInit ==
    /\ SshInit
    /\ res = NoRes
    /\ \E steps \in Scripts :
          sc = [NoScript EXCEPT !.pc = "run", !.stack = <<Frame(steps)>>]

\* The innermost call returns `result`: to the if handler awaiting it, or to
\* the caller of the outermost executeSteps.
Return(frame, result, byCancel) ==
    LET rest == SubSeq(sc.stack, 1, Len(sc.stack) - 1)
    IN  sc' = [sc EXCEPT
                !.stack = rest,
                !.pending = IF rest = << >> THEN NoCommandResult ELSE result,
                !.ret = IF rest = << >> THEN result ELSE @,
                !.pc = IF rest = << >> THEN "done" ELSE @,
                !.last = [steps |-> frame.steps, ran |-> frame.ran,
                          result |-> result, byCancel |-> byCancel]]

\* The loop body of executeSteps after executeStep has given `result`.
AfterStep(frame, result) ==
    LET f == [frame EXCEPT !.ran = Append(@, [idx |-> frame.i + 1, result |-> result])]
    IN  IF Halts(result)
        THEN Return(f, result, FALSE)
        ELSE sc' = [sc EXCEPT !.stack[Len(sc.stack)] = [f EXCEPT !.i = @ + 1],
                              !.pending = NoCommandResult]

\* One iteration of the loop of the innermost executeSteps call, or its
\* return when the list is exhausted.
executeSteps ==
    /\ sc.pc = "run"
    /\ sc.pending = NoCommandResult
    /\ LET frame == sc.stack[Len(sc.stack)]
           step == frame.steps[frame.i + 1]
       IN  IF frame.i = Len(frame.steps)
           THEN Return(frame, successResult, FALSE)
           ELSE IF sc.cancelled
           THEN Return(frame, CancelledResult, TRUE)
           ELSE IF step.type = "if"
           THEN IF IfBranch(step) # << >>
                THEN sc' = [sc EXCEPT !.stack = Append(@, Frame(IfBranch(step)))]
                ELSE AfterStep(frame, successResult)
           ELSE \E outcome \in SendOutcomes :
                    AfterStep(frame, executeStep(step, outcome))
    /\ UNCHANGED <<now, session, cancelled, ex, gh, res, bt, ev, cn, pool, tp, dev, cx>>

\* The if handler returns what the nested executeSteps returned, and the loop
\* of the enclosing call goes on with it.
IfReturns ==
    /\ sc.pc = "run"
    /\ sc.pending # NoCommandResult
    /\ AfterStep(sc.stack[Len(sc.stack)], sc.pending)
    /\ UNCHANGED <<now, session, cancelled, ex, gh, res, bt, ev, cn, pool, tp, dev, cx>>

\* ScriptExecutor.cancel()
cancel ==
    /\ sc.pc = "run"
    /\ ~sc.cancelled
    /\ sc' = [sc EXCEPT !.cancelled = TRUE]
    /\ UNCHANGED <<now, session, cancelled, ex, gh, res, bt, ev, cn, pool, tp, dev, cx>>

NextScript == executeSteps \/ IfReturns \/ cancel

SpecScript == ScriptInit /\ [][NextScript]_vars

(***************************************************************************)
(* A whole script run: ScriptExecutor.execute over a step tree with        *)
(* foreach and while loops, with the send steps in flight on the session   *)
(* engine and the ssh:cancel handler.                                      *)
(*   sc.stack   the calls that are awaiting a result: "list" frames are    *)
(*              executeSteps calls, "loop" frames are ForeachCommand or    *)
(*              WhileCommand calls                                         *)
(*   sc.service SshExecutionService.cancelled                              *)
(*   sc.trace   the step handlers started so far, for the properties       *)
(*   sc.inFlight the place in sc.trace of the send that was in flight when  *)
(*              cancellation was requested, 0 if none was                  *)
(*   sc.warnings the number of Warning lines the while loops have emitted   *)
(***************************************************************************)
MaxItems == 2
MaxIterations == 2

ExtractContinueStep == Step("extract", "continue", << >>, TRUE, << >>, << >>)

LoopStep(type, onError, when, do) == Step(type, onError, << >>, when, do, << >>)

DoLeaves ==
    {PrintStep, ExitOkStep, ExitFailStep, SendStep, SendContinueStep, ExtractContinueStep}

DoIfs ==
    { Step("if", "stop", << >>, flag, then, << >>) :
        flag \in BOOLEAN, then \in { <<ExitFailStep>>, <<SendStep, PrintStep>> } }

DoBlocks == UNION { [1..n -> DoLeaves \cup DoIfs] : n \in 1..MaxBlock }

InnerLoops ==
    { LoopStep(type, onError, FALSE, do) :
        type \in {"foreach", "while"}, onError \in {"stop", "continue"},
        do \in { <<ExitOkStep>>, <<SendContinueStep>>, <<SendStep, PrintStep>> } }

LoopBlocks == DoBlocks \cup { <<l>> : l \in InnerLoops }

\* foreach steps with and without a `when` guard, and while steps.
Loops ==
    { LoopStep("foreach", onError, when, do) :
        onError \in {"stop", "continue"}, when \in BOOLEAN, do \in LoopBlocks } \cup
    { LoopStep("while", onError, FALSE, do) :
        onError \in {"stop", "continue"}, do \in LoopBlocks }

RunScripts ==
    { <<s>> : s \in Loops \cup DoLeaves \cup DoIfs } \cup
    { <<s, PrintStep>> : s \in Loops \cup DoLeaves \cup DoIfs }

\* The errorMessage sshService.execute resolves a send in flight with: once
\* the service is cancelled its next poll tick ends it, as timed out if the
\* timeout has passed as well (PreCheck).
SendResolutions(serviceCancelled) ==
    IF serviceCancelled
    THEN {"Command timed out", "Execution cancelled"}
    ELSE SendOutcomes

\* ExtractCommand.execute: "" stands for a pattern that compiles.
ExtractCommand(step, outcome) ==
    IF outcome # "" THEN errorResult("Invalid regex pattern") ELSE successResult

\* The ScriptResult execute makes of what executeSteps returned.  Its message
\* is an exit message, kept as characters in `message`, or a fixed or error
\* text, kept as a string in `text`; the other of the two is empty.
ScriptResultOf(result) ==
    IF result.controlFlow = "exit"
    THEN [status |-> IF result.success THEN "success" ELSE "failure",
          message |-> result.exitMessage, text |-> ""]
    ELSE IF ~result.success
    THEN [status |-> "error", message |-> << >>,
          text |-> IF result.error # "" THEN result.error ELSE "Script failed"]
    ELSE [status |-> "success", message |-> << >>,
          text |-> "Script completed successfully"]

\* A loop that goes on with its next iteration after an exit.
LoopIgnoresExit(step, result) ==
    ~result.success /\ result.controlFlow # "exit" /\ step.onError # "continue"

\* ForeachCommand / WhileCommand after executeSteps(do) returned `result`
\* that is no break: the loop returns it.
LoopReturns(step, result) ==
    \/ result.controlFlow = "exit"
    \/ ~result.success /\ step.onError # "continue"

ListFrame(steps) == [kind |-> "list", steps |-> steps, i |-> 0]

LoopFrame(step) == [kind |-> "loop", step |-> step, iter |-> 0]

\* `result` reaches the call on top of `stack` that awaits it: an
\* executeSteps call takes it as the result of its current step, a loop as
\* the result of its do block.  The calls that return pass their own result
\* on; what is left is the stack of the calls that go on.
RECURSIVE Deliver(_, _)
Deliver(stack, result) ==
    IF stack = << >>
    THEN [stack |-> << >>, ret |-> result]
    ELSE IF stack[Len(stack)].kind = "list"
    THEN IF Halts(result)
         THEN Deliver(SubSeq(stack, 1, Len(stack) - 1), result)
         ELSE [stack |-> [stack EXCEPT ![Len(stack)].i = @ + 1],
               ret |-> NoCommandResult]
    ELSE IF result.controlFlow = "break"
    THEN Deliver(SubSeq(stack, 1, Len(stack) - 1), successResult)
    ELSE IF LoopReturns(stack[Len(stack)].step, result)
    THEN Deliver(SubSeq(stack, 1, Len(stack) - 1), result)
    ELSE [stack |-> [stack EXCEPT ![Len(stack)].iter = @ + 1],
          ret |-> NoCommandResult]

\* The state after the calls in `d` have returned.
Delivered(s, d) ==
    [s EXCEPT !.stack = d.stack,
              !.ret = d.ret,
              !.pc = IF d.stack = << >> THEN "done" ELSE "run",
              !.result = IF d.stack = << >>
                         THEN ScriptResultOf(d.ret) ELSE @]

\* The entry of sc.trace for a step handler: the step, how many calls were
\* awaiting it, whether steps follow it in its list, the failure it met ("" if
\* none) and whether its result ended its list.
Started(step) ==
    [step |-> step, depth |-> Len(sc.stack),
     more |-> sc.stack[Len(sc.stack)].i + 1 < Len(sc.stack[Len(sc.stack)].steps),
     failed |-> FALSE, error |-> "", halted |-> FALSE]

Finished(entry, error, result) ==
    [entry EXCEPT !.failed = (error # ""), !.error = error, !.halted = Halts(result)]

NoScriptResult == [status |-> "none", message |-> << >>, text |-> ""]

RunInit ==
    /\ SshInit
    /\ res = NoRes
    /\ \E steps \in RunScripts :
          sc = [pc |-> "run", stack |-> <<ListFrame(steps)>>, cancelled |-> FALSE,
                service |-> FALSE, inFlight |-> 0, trace |-> << >>,
                warnings |-> 0,
                ret |-> NoCommandResult, result |-> NoScriptResult]

\* A step handler that calls no nested list has returned `result`.
LeafDone(s, step, error, result) ==
    Delivered([s EXCEPT !.trace = Append(@, Finished(Started(step), error, result))],
              Deliver(s.stack, result))

\* executeStep on `step` of the executeSteps call on top of the stack.
Dispatch(step) ==
    CASE step.type = "send" ->
            sc' = [sc EXCEPT !.pc = "send", !.trace = Append(@, Started(step))]
      [] step.type = "extract" ->
            \E outcome \in {"", "Invalid regex pattern"} :
                sc' = LeafDone(sc, step, outcome, ExtractCommand(step, outcome))
      [] step.type = "if" ->
            IF IfBranch(step) # << >>
            THEN sc' = [sc EXCEPT !.stack = Append(@, ListFrame(IfBranch(step))),
                                  !.trace = Append(@, Started(step))]
            ELSE sc' = LeafDone(sc, step, "", successResult)
      [] step.type \in {"foreach", "while"} ->
            IF step.then = << >>
            THEN sc' = LeafDone(sc, step, "requires a do block",
                                errorResult("requires a do block"))
            ELSE sc' = [sc EXCEPT !.stack = Append(@, LoopFrame(step)),
                                  !.trace = Append(@, Started(step))]
      [] OTHER -> sc' = LeafDone(sc, step, "", executeStep(step, ""))

\* One turn of the loop of the executeSteps call on top of the stack.
StartStep ==
    /\ sc.pc = "run"
    /\ sc.stack[Len(sc.stack)].kind = "list"
    /\ LET frame == sc.stack[Len(sc.stack)]
       IN  IF frame.i = Len(frame.steps)
           THEN sc' = Delivered(sc, Deliver(SubSeq(sc.stack, 1, Len(sc.stack) - 1),
                                            successResult))
           ELSE IF sc.cancelled
           THEN sc' = Delivered(sc, Deliver(SubSeq(sc.stack, 1, Len(sc.stack) - 1),
                                            CancelledResult))
           ELSE Dispatch(frame.steps[frame.i + 1])
    /\ UNCHANGED <<now, session, cancelled, ex, gh, res, bt, ev, cn, pool, tp, dev, cx>>

\* A while loop without the iteration limit.
WhileUnbounded(type, iter) == type = "while" \/ iter < MaxItems

\* The loop conditions `iterations < this.maxIterations` of WhileCommand and
\* `index < collection.length` of ForeachCommand, with MaxIterations for
\* maxIterations and a collection of MaxItems items.
LoopGoesOn(type, iter) ==
    iter < (IF type = "foreach" THEN MaxItems ELSE MaxIterations)

\* The loop has ended without a break, an exit or a failure of its do
\* block: a while loop that has used up its iterations emits a Warning line;
\* the step returns successResult.
LoopEnds(s, frame) ==
    Delivered([s EXCEPT !.warnings =
                  IF frame.step.type = "while" /\ frame.iter >= MaxIterations
                  THEN @ + 1 ELSE @],
              Deliver(SubSeq(s.stack, 1, Len(s.stack) - 1), successResult))

\* One turn of the loop of the ForeachCommand or WhileCommand call on top of
\* the stack: the collection has MaxItems items, the `when` guard and the
\* while condition depend on the variables and may come out either way.
Iterate ==
    /\ sc.pc = "run"
    /\ sc.stack[Len(sc.stack)].kind = "loop"
    /\ LET frame == sc.stack[Len(sc.stack)]
       IN  IF ~LoopGoesOn(frame.step.type, frame.iter)
           THEN sc' = LoopEnds(sc, frame)
           ELSE \E holds \in BOOLEAN :
                   IF frame.step.type = "while" /\ ~holds
                   THEN sc' = LoopEnds(sc, frame)
                   ELSE IF frame.step.type = "foreach" /\ frame.step.flag /\ ~holds
                   THEN sc' = [sc EXCEPT !.stack[Len(sc.stack)].iter = @ + 1]
                   ELSE sc' = [sc EXCEPT !.stack = Append(@, ListFrame(frame.step.then))]
    /\ UNCHANGED <<now, session, cancelled, ex, gh, res, bt, ev, cn, pool, tp, dev, cx>>

\* sshService.execute resolves the send in flight and SendCommand returns.
SendResolves ==
    /\ sc.pc = "send"
    /\ LET frame == sc.stack[Len(sc.stack)]
           step == frame.steps[frame.i + 1]
       IN  \E outcome \in SendResolutions(sc.service) :
              sc' = Delivered(
                      [sc EXCEPT !.trace[Len(sc.trace)] =
                          Finished(@, outcome, SendCommand(step, outcome))],
                      Deliver(sc.stack, SendCommand(step, outcome)))
    /\ UNCHANGED <<now, session, cancelled, ex, gh, res, bt, ev, cn, pool, tp, dev, cx>>

\* The ssh:cancel handler: sshService.cancelExecution() and
\* scriptExecutor.cancel().  It runs while the script awaits a timer or the
\* device, which among the steps of RunScripts is a send in flight.
sshCancel ==
    /\ sc.pc = "send"
    /\ ~sc.cancelled
    /\ sc' = [sc EXCEPT !.cancelled = TRUE, !.service = TRUE,
                        !.inFlight = Len(sc.trace)]
    /\ UNCHANGED <<now, session, cancelled, ex, gh, res, bt, ev, cn, pool, tp, dev, cx>>

NextRun == StartStep \/ Iterate \/ SendResolves \/ sshCancel

SpecRun == RunInit /\ [][NextRun]_vars

\* The event loop runs every continuation that is ready, and the session
\* engine resolves every send (by its timeout at the latest).
SpecRunFair == SpecRun /\ WF_vars(NextRun)

(***************************************************************************)
(* The ssh:executeOnHosts handler: a batch over MaxHosts hosts, each        *)
(* reconnected and given a YAML script or a list of command lines, and the *)
(* ssh:cancel handler.                                                     *)
(*   bt.service, bt.script   the cancelled flags of the SshExecutionService *)
(*                           and of the ScriptExecutor                     *)
(*   bt.events               the ssh:complete events sent so far           *)
(*   bt.cancelledIn          the batch in which ssh:cancel was last invoked *)
(*   bt.last                 what the latest sshService.execute of a       *)
(*                           command line resolved with, and in which batch *)
(***************************************************************************)
MaxHosts == 2
MaxLines == 2
MaxBatches == 2

\* What executeSteps can return to execute, given the two flags as they were
\* during the run.
ScriptReturns(serviceCancelled, scriptCancelled) ==
    {successResult, ExitCommand(ExitOkStep), ExitCommand(ExitFailStep),
     errorResult("Command timed out")}
      \cup (IF serviceCancelled THEN {errorResult("Execution cancelled")} ELSE {})
      \cup (IF scriptCancelled THEN {CancelledResult} ELSE {})

\* An ExecutionResult sent as ssh:complete; errorMessage is `message`
\* (characters of an exit message) or `text`, both empty when it is undefined.
Completion(b, success, message, text) ==
    [batch |-> b.batch, host |-> b.h, success |-> success,
     message |-> message, text |-> text]

\* A batch that stops at the first host that finds the service cancelled.
NextHostUnlessCancelled(b) ==
    IF b.h < MaxHosts /\ ~b.service
    THEN [b EXCEPT !.h = @ + 1, !.pc = "connect"]
    ELSE [b EXCEPT !.pc = "idle"]

\* `for (const host of hosts)`: on to the next host, or the handler returns.
NextHost(b) ==
    IF b.h < MaxHosts
    THEN [b EXCEPT !.h = @ + 1, !.pc = "connect"]
    ELSE [b EXCEPT !.pc = "idle"]

\* sendToRenderer('ssh:complete', execResult), the last act for a host.
Complete(b, success, message, text) ==
    NextHost([b EXCEPT !.events = Append(@, Completion(b, success, message, text))])

\* The completion of a host that ran a script with ScriptResult `result`.
ScriptCompletion(b, result) ==
    IF result.status = "success"
    THEN Complete(b, TRUE, << >>, "")
    ELSE Complete(b, FALSE, result.message, result.text)

BatchInit ==
    /\ IdleEngine
    /\ res = NoRes
    /\ sc = NoScript
    /\ ev = NoEval
    /\ bt = [pc |-> "idle", batch |-> 0, isScript |-> FALSE, parses |-> TRUE, lines |-> 0,
             h |-> 0, line |-> 0, success |-> TRUE,
             service |-> FALSE, script |-> FALSE, events |-> << >>,
             cancelledIn |-> 0, last |-> [batch |-> 0, error |-> ""]]

\* The renderer invokes ssh:executeOnHosts with a script, which the parser
\* accepts or not, or with command lines, of which `lines` are left after the
\* blank and comment lines.
executeOnHosts ==
    /\ bt.pc = "idle"
    /\ bt.batch < MaxBatches
    /\ \E isScript \in BOOLEAN, parses \in BOOLEAN, lines \in 0..MaxLines :
          /\ isScript => lines = 0
          /\ ~isScript => parses
          /\ bt' = [bt EXCEPT !.pc = "connect", !.batch = @ + 1, !.h = 1,
                              !.isScript = isScript, !.parses = parses,
                              !.lines = lines]
    /\ UNCHANGED <<now, session, cancelled, ex, gh, res, sc, ev, cn, pool, tp, dev, cx>>

\* disconnect, connect and, for a script, scriptParser.parse; whatever throws
\* is caught and completes the host as failed.
Connect ==
    /\ bt.pc = "connect"
    /\ \E connected \in BOOLEAN :
          IF ~connected
          THEN bt' = Complete(bt, FALSE, << >>, "Connection failed")
          ELSE IF bt.isScript
          THEN IF bt.parses
               THEN bt' = [bt EXCEPT !.pc = "script", !.script = FALSE]
               ELSE bt' = Complete(bt, FALSE, << >>, "Invalid script")
          ELSE IF bt.lines = 0
          THEN bt' = Complete(bt, TRUE, << >>, "")
          ELSE bt' = [bt EXCEPT !.pc = "exec", !.line = 1, !.success = TRUE]
    /\ UNCHANGED <<now, session, cancelled, ex, gh, res, sc, ev, cn, pool, tp, dev, cx>>

\* scriptExecutor.execute resolves and the host is completed with its result.
ScriptEnds ==
    /\ bt.pc = "script"
    /\ \E result \in ScriptReturns(bt.service, bt.script) :
          bt' = ScriptCompletion(bt, ScriptResultOf(result))
    /\ UNCHANGED <<now, session, cancelled, ex, gh, res, sc, ev, cn, pool, tp, dev, cx>>

\* sshService.execute of the current command line resolves; the loop over
\* the lines breaks at the first failure, and the host is completed without
\* an errorMessage.
LineResolves ==
    /\ bt.pc = "exec"
    /\ \E outcome \in SendResolutions(bt.service) :
          IF outcome = "" /\ bt.line < bt.lines
          THEN bt' = [bt EXCEPT !.line = @ + 1,
                                !.last = [batch |-> bt.batch, error |-> outcome]]
          ELSE bt' = Complete([bt EXCEPT !.success = (outcome = ""),
                                         !.last = [batch |-> bt.batch, error |-> outcome]],
                              outcome = "", << >>, "")
    /\ UNCHANGED <<now, session, cancelled, ex, gh, res, sc, ev, cn, pool, tp, dev, cx>>

\* The ssh:cancel handler, invoked while the batch awaits a connection, a
\* script or a command.
cancelBatch ==
    /\ bt.pc \in {"connect", "script", "exec"}
    /\ bt.cancelledIn # bt.batch
    /\ bt' = [bt EXCEPT !.service = TRUE, !.script = TRUE, !.cancelledIn = bt.batch]
    /\ UNCHANGED <<now, session, cancelled, ex, gh, res, sc, ev, cn, pool, tp, dev, cx>>

NextBatch == executeOnHosts \/ Connect \/ ScriptEnds \/ LineResolves \/ cancelBatch

SpecBatch == BatchInit /\ [][NextBatch]_vars

\* sshService.connect and sshService.execute settle, by their timeouts at the
\* latest, and the handler goes on when they do.  scriptExecutor.execute need
\* not: a script stays suspended in an input step for as long as the user
\* leaves the prompt unanswered (InputCommand awaits promptForInput).
SpecBatchFair == SpecBatch /\ WF_vars(Connect) /\ WF_vars(LineResolves)

(***************************************************************************)
(* ExpressionEvaluator (src/main/scripting/ExpressionEvaluator.ts) on       *)
(* conditions built from the variables a, b and c with and, or, not and    *)
(* parentheses, where the context gives each variable the string "true"    *)
(* or "false", and on comparisons of a with a quoted string literal.       *)
(*   ev.expression, ev.context   the condition and the variables           *)
(*   ev.value                    what evaluate returned                    *)
(***************************************************************************)
Uppers == <<"A", "B", "C", "D", "E", "F", "G", "H", "I", "J", "K", "L", "M", "N", "O", "P", "Q", "R", "S", "T", "U", "V", "W", "X", "Y", "Z">>
Lowers == <<"a", "b", "c", "d", "e", "f", "g", "h", "i", "j", "k", "l", "m", "n", "o", "p", "q", "r", "s", "t", "u", "v", "w", "x", "y", "z">>

\* String.prototype.toLowerCase, on one character.
ToLowerCase(c) ==
    IF \E k \in 1..Len(Uppers) : Uppers[k] = c
    THEN Lowers[CHOOSE k \in 1..Len(Uppers) : Uppers[k] = c]
    ELSE c

LowerText(s) == [k \in 1..Len(s) |-> ToLowerCase(s[k])]

\* s.substring(p - 1).toLowerCase().startsWith(lit.toLowerCase())
StartsWithAt(s, p, lit) == LitAt(LowerText(s), p, LowerText(lit))

AndOp == <<" ", "a", "n", "d", " ">>
OrOp == <<" ", "o", "r", " ">>
NotPrefix == <<"n", "o", "t", " ">>
TrueText == <<"t", "r", "u", "e">>
FalseText == <<"f", "a", "l", "s", "e">>
QuoteChars == {"\"", "'"}

\* A scan that does not track quotes.
QuoteBlind(s, p, quote) == ""

\* The quote state after the character at position p: "" outside quotes,
\* otherwise the character that opened the quote.
QuoteAfter(s, p, quote) ==
    IF s[p] \in QuoteChars /\ (p = 1 \/ s[p - 1] # "\\")
    THEN IF quote = "" THEN s[p] ELSE IF s[p] = quote THEN "" ELSE quote
    ELSE quote

RECURSIVE FindFrom(_, _, _, _)
\* The loop of findLogicalOperator from i = p - 1 on.
FindFrom(s, op, p, quote) ==
    IF p - 1 >= Len(s) - Len(op) THEN -1
    ELSE IF QuoteAfter(s, p, quote) = "" /\ StartsWithAt(s, p, op) THEN p - 1
    ELSE FindFrom(s, op, p + 1, QuoteAfter(s, p, quote))

\* findLogicalOperator: the 0-based index of the first op outside quotes, -1
\* if there is none.
findLogicalOperator(expression, op) == FindFrom(expression, op, 1, "")

\* The digits, in order: DigitChars[d + 1] is the digit d.
DigitChars == <<"0", "1", "2", "3", "4", "5", "6", "7", "8", "9">>

RECURSIVE NatOf(_)
\* The number a run of digits spells.
NatOf(digits) ==
    IF digits = << >> THEN 0
    ELSE 10 * NatOf(SubSeq(digits, 1, Len(digits) - 1))
            + (CHOOSE d \in 0..9 : DigitChars[d + 1] = digits[Len(digits)])

RECURSIVE NatText(_)
\* Number.prototype.toString, on a natural number.
NatText(n) ==
    IF n < 10 THEN <<DigitChars[n + 1]>>
    ELSE NatText(n \div 10) \o <<DigitChars[(n % 10) + 1]>>

\* The digits parseFloat reads: those after the leading white space.
LeadDigits(text) ==
    SubSeq(TrimStart(text), 1, DigitsEnd(TrimStart(text), 1) - 1)

\* parseFloat(text) is not NaN: the text starts with a digit (signs, dots
\* and leading blanks do not occur in the conditions).
IsNumeric(text) == text # << >> /\ text[1] \in Digits

RECURSIVE NonZeroPrefix(_)
\* parseFloat(text) !== 0, for a text that starts with a digit.
NonZeroPrefix(text) ==
    /\ text # << >>
    /\ text[1] \in Digits
    /\ (text[1] # "0" \/ NonZeroPrefix(Tail(text)))

RECURSIVE JoinComma(_)
\* Array.prototype.toString: the items joined by commas.
JoinComma(items) ==
    IF items = << >> THEN << >>
    ELSE IF Len(items) = 1 THEN items[1]
    ELSE items[1] \o <<",">> \o JoinComma(Tail(items))

\* The values of variables and of resolveValue: a number (num, n), a string
\* (text) or an array of strings (list, items); text is the string form.
NumberValue(n) ==
    [num |-> TRUE, n |-> n, text |-> NatText(n), list |-> FALSE, items |-> << >>]
StringValue(text) ==
    [num |-> FALSE, n |-> 0, text |-> text, list |-> FALSE, items |-> << >>]
ListValue(items) ==
    [num |-> FALSE, n |-> 0, text |-> JoinComma(items), list |-> TRUE, items |-> items]

\* expr is written between two quotes of the same kind.
IsQuoted(t) == t # << >> /\ t[1] \in QuoteChars /\ t[Len(t)] = t[1]

\* expr.substring(1, expr.length - 1); substring swaps its arguments when
\* the first is the larger, which happens for a lone quote character.
Unquote(t) == IF Len(t) = 1 THEN t ELSE SubSeq(t, 2, Len(t) - 1)

(***************************************************************************)
(* ScriptContext (src/main/scripting/ScriptContext.ts).  A context is a    *)
(* record of                                                               *)
(*   variables          the Map: a function from keys, which are texts in  *)
(*                      lower case, to values                              *)
(*   lastCommandOutput  the field of that name                             *)
(***************************************************************************)
\* The key of the built-in variable that recordCommandOutput writes.
OutputName == <<"_", "o", "u", "t", "p", "u", "t">>

\* A context with the given variables and no command output yet.
NewContext(variables) == [variables |-> variables, lastCommandOutput |-> << >>]

\* this.variables.set(key, value)
MapSet(key, value, context) ==
    [context EXCEPT !.variables =
        [k \in DOMAIN context.variables \cup {key} |->
            IF k = key THEN value ELSE context.variables[k]]]

\* ScriptContext.setVariable(name, value)
setVariable(name, value, context) == MapSet(LowerText(name), value, context)

\* ScriptContext.hasVariable(name)
hasVariable(name, context) == LowerText(name) \in DOMAIN context.variables

\* ScriptContext.getVariable(name), for a name that hasVariable.
getVariable(name, context) == context.variables[LowerText(name)]

\* ScriptContext.getVariableString(name): value?.toString() ?? ''
getVariableString(name, context) ==
    IF hasVariable(name, context) THEN getVariable(name, context).text ELSE << >>

\* ScriptContext.getVariableList(name): a copy of an array, a string as a
\* list of one item, nothing for any other value.
getVariableList(name, context) ==
    IF ~hasVariable(name, context) THEN << >>
    ELSE IF getVariable(name, context).list THEN getVariable(name, context).items
    ELSE IF getVariable(name, context).num THEN << >>
    ELSE <<getVariable(name, context).text>>

\* ScriptContext.recordCommandOutput(output, captureVariable), but for the
\* push to the output log; no captureVariable is the empty text.
recordCommandOutput(output, captureVariable, context) ==
    IF captureVariable # << >>
    THEN setVariable(captureVariable, StringValue(output),
                     MapSet(OutputName, StringValue(output),
                                          [context EXCEPT !.lastCommandOutput = output]))
    ELSE MapSet(OutputName, StringValue(output),
                              [context EXCEPT !.lastCommandOutput = output])

\* \w
WordChars == Letters \cup Digits \cup {"_"}

\* The first position from p on where s holds character c, 0 if nowhere.
RECURSIVE IndexFrom(_, _, _)
IndexFrom(s, c, p) ==
    IF p > Len(s) THEN 0
    ELSE IF s[p] = c THEN p
    ELSE IndexFrom(s, c, p + 1)

\* parseInt(text, 10) of a text without sign: the leading digits; none is NaN.
IsInt(text) == LeadDigits(text) # << >>

\* /^(\w+)\[([^\]]+)\]$/ matches expr: the position of the "[", 0 if it
\* does not match.
ArrayBracket(expr) ==
    IF /\ expr # << >>
       /\ expr[Len(expr)] = "]"
       /\ IndexFrom(expr, "[", 1) > 1
       /\ IndexFrom(expr, "[", 1) < Len(expr) - 1
       /\ IndexFrom(expr, "]", IndexFrom(expr, "[", 1)) = Len(expr)
       /\ \A k \in 1..(IndexFrom(expr, "[", 1) - 1) : expr[k] \in WordChars
    THEN IndexFrom(expr, "[", 1)
    ELSE 0

\* The index of an array expression: a number, or the number a variable
\* holds; -1 stands for NaN.
ArrayIndex(indexExpr, context) ==
    IF IsInt(indexExpr) THEN NatOf(LeadDigits(indexExpr))
    ELSE IF hasVariable(indexExpr, context) /\ IsInt(getVariable(indexExpr, context).text)
    THEN NatOf(LeadDigits(getVariable(indexExpr, context).text))
    ELSE -1

\* list[index], '' when the index is NaN or out of range.
ItemAt(list, index) ==
    IF index >= 0 /\ index < Len(list) THEN list[index + 1] ELSE << >>

\* ScriptContext.resolveVariableExpression(expr)
resolveVariableExpression(expr, context) ==
    IF ArrayBracket(expr) > 0
    THEN ItemAt(getVariableList(SubSeq(expr, 1, ArrayBracket(expr) - 1), context),
                ArrayIndex(SubSeq(expr, ArrayBracket(expr) + 1, Len(expr) - 1), context))
    ELSE getVariableString(expr, context)

\* The replacement string of String.prototype.replace from position q on,
\* for the match of a pattern without groups that stands at m..e-1 of s:
\* $$ is a dollar sign, $& the match, $` what precedes it, $' what follows.
RECURSIVE ExpandReplacement(_, _, _, _, _)
ExpandReplacement(replacement, q, s, m, e) ==
    IF q > Len(replacement) THEN << >>
    ELSE IF replacement[q] = "$" /\ q < Len(replacement) /\ replacement[q + 1] = "$"
    THEN <<"$">> \o ExpandReplacement(replacement, q + 2, s, m, e)
    ELSE IF replacement[q] = "$" /\ q < Len(replacement) /\ replacement[q + 1] = "&"
    THEN SubSeq(s, m, e - 1) \o ExpandReplacement(replacement, q + 2, s, m, e)
    ELSE IF replacement[q] = "$" /\ q < Len(replacement) /\ replacement[q + 1] = "`"
    THEN SubSeq(s, 1, m - 1) \o ExpandReplacement(replacement, q + 2, s, m, e)
    ELSE IF replacement[q] = "$" /\ q < Len(replacement) /\ replacement[q + 1] = "'"
    THEN SubSeq(s, e, Len(s)) \o ExpandReplacement(replacement, q + 2, s, m, e)
    ELSE <<replacement[q]>> \o ExpandReplacement(replacement, q + 1, s, m, e)

OutputPlaceholder == <<"$", "{", "_", "o", "u", "t", "p", "u", "t", "}">>

\* input.replace(/\$\{_output\}/g, replacement) from position p on.
RECURSIVE ReplaceOutput(_, _, _)
ReplaceOutput(s, p, replacement) ==
    IF p > Len(s) THEN << >>
    ELSE IF LitAt(s, p, OutputPlaceholder)
    THEN ExpandReplacement(replacement, 1, s, p, p + Len(OutputPlaceholder))
            \o ReplaceOutput(s, p + Len(OutputPlaceholder), replacement)
    ELSE <<s[p]>> \o ReplaceOutput(s, p + 1, replacement)

\* The end of a match of /\$\{([^}]+)\}/ that starts at p: the position of
\* its "}", 0 if there is no match at p.
PlaceholderEnd(s, p) ==
    IF LitAt(s, p, <<"$", "{">>) /\ IndexFrom(s, "}", p + 2) > p + 2
    THEN IndexFrom(s, "}", p + 2)
    ELSE 0

\* result.replace(/\$\{([^}]+)\}/g, (_match, expr) => resolveVariableExpression(expr))
\* from position p on.
RECURSIVE ReplacePlaceholders(_, _, _)
ReplacePlaceholders(s, p, context) ==
    IF p > Len(s) THEN << >>
    ELSE IF PlaceholderEnd(s, p) > 0
    THEN resolveVariableExpression(SubSeq(s, p + 2, PlaceholderEnd(s, p) - 1), context)
            \o ReplacePlaceholders(s, PlaceholderEnd(s, p) + 1, context)
    ELSE <<s[p]>> \o ReplacePlaceholders(s, p + 1, context)

\* ScriptContext.substituteVariables(input)
substituteVariables(input, context) ==
    ReplacePlaceholders(ReplaceOutput(input, 1, context.lastCommandOutput), 1, context)

\* resolveValue after the trim.
ResolveTrimmed(t, context) ==
    IF IsQuoted(t) THEN StringValue(Unquote(t))
    ELSE IF Includes(t, <<"$", "{">>) THEN StringValue(substituteVariables(t, context))
    ELSE IF hasVariable(t, context) THEN getVariable(t, context)
    ELSE IF LeadDigits(t) # << >> THEN NumberValue(NatOf(LeadDigits(t)))
    ELSE StringValue(t)

\* ExpressionEvaluator.resolveValue
resolveValue(expr, context) == ResolveTrimmed(Trim(expr), context)

\* ExpressionEvaluator.resolveStringValue: value?.toString() ?? ''
resolveStringValue(expr, context) == resolveValue(expr, context).text

\* resolveNumeric of a resolved value.
NumericOf(v) ==
    IF v.num THEN v.n
    ELSE IF LeadDigits(v.text) # << >> THEN NatOf(LeadDigits(v.text))
    ELSE 0

\* ExpressionEvaluator.resolveNumeric
resolveNumeric(expr, context) == NumericOf(resolveValue(expr, context))

\* ExpressionEvaluator.extractPattern after the trim.
ExtractTrimmed(t) ==
    IF IsQuoted(t) THEN Unquote(t)
    ELSE IF t # << >> /\ t[1] = "/" /\ t[Len(t)] = "/" THEN Unquote(t)
    ELSE t

\* ExpressionEvaluator.extractPattern
extractPattern(expr) == ExtractTrimmed(Trim(expr))

\* ExpressionEvaluator.areEqual on the string forms of the two values.
EqualTexts(leftStr, rightStr) ==
    IF LeadDigits(leftStr) # << >> /\ LeadDigits(rightStr) # << >>
    THEN NatOf(LeadDigits(leftStr)) = NatOf(LeadDigits(rightStr))
    ELSE LowerText(leftStr) = LowerText(rightStr)

\* ExpressionEvaluator.areEqual
areEqual(left, right) == EqualTexts(left.text, right.text)

\* ExpressionEvaluator.isTruthy
isTruthy(value) ==
    IF value.list THEN value.items # << >>
    ELSE IF value.num THEN value.n # 0
    ELSE value.text # << >> /\ LowerText(value.text) # FalseText

\* !value: a number is falsy when it is 0, a string when it is empty, an
\* array never.
Falsy(value) ==
    IF value.list THEN FALSE
    ELSE IF value.num THEN value.n = 0
    ELSE value.text = << >>

\* isTruthy(resolveValue(expr)): a quoted string, a variable of the context,
\* a number or the text itself.
TruthyValue(t, context) == isTruthy(resolveValue(t, context))

IsEmptyLit == <<" ", "i", "s", " ", "e", "m", "p", "t", "y">>
IsNotEmptyLit == <<" ", "i", "s", " ", "n", "o", "t", " ", "e", "m", "p", "t", "y">>
IsDefinedLit == <<" ", "i", "s", " ", "d", "e", "f", "i", "n", "e", "d">>
IsNotDefinedLit == <<" ", "i", "s", " ", "n", "o", "t", " ", "d", "e", "f", "i", "n", "e", "d">>

\* The binary operators of evaluateComparison, in the order it looks for
\* them.
ComparisonOps ==
    << <<" ", "m", "a", "t", "c", "h", "e", "s", " ">>, <<" ", "c", "o", "n", "t", "a", "i", "n", "s", " ">>, <<" ", "s", "t", "a", "r", "t", "s", "w", "i", "t", "h", " ">>,
       <<" ", "e", "n", "d", "s", "w", "i", "t", "h", " ">>, <<" ", "!", "=", " ">>, <<" ", "=", "=", " ">>, <<" ", ">", "=", " ">>,
       <<" ", "<", "=", " ">>, <<" ", ">", " ">>, <<" ", "<", " ">> >>

\* ExpressionEvaluator.findOperator
findOperator(expression, op) == findLogicalOperator(expression, op)

RECURSIVE FirstOperator(_, _)
\* The first operator of ComparisonOps, from the k-th on, that findOperator
\* finds at an index above 0; 0 if there is none.
FirstOperator(expression, k) ==
    IF k > Len(ComparisonOps) THEN 0
    ELSE IF findOperator(expression, ComparisonOps[k]) > 0 THEN k
    ELSE FirstOperator(expression, k + 1)

\* The branch of evaluateComparison for operator k with its operands; a
\* pattern of matches is plain text (no regex metacharacters), so that the
\* case-insensitive test is a search for the text.
Compare(k, left, right, context) ==
    CASE k = 1 -> Includes(LowerText(resolveStringValue(left, context)),
                           LowerText(extractPattern(right)))
                    \/ extractPattern(right) = << >>
      [] k = 2 -> Includes(LowerText(resolveStringValue(left, context)),
                           LowerText(resolveStringValue(right, context)))
                    \/ resolveStringValue(right, context) = << >>
      [] k = 3 -> LitAt(LowerText(resolveStringValue(left, context)), 1,
                        LowerText(resolveStringValue(right, context)))
      [] k = 4 -> EndsWith(LowerText(resolveStringValue(left, context)),
                           LowerText(resolveStringValue(right, context)))
      [] k = 5 -> ~areEqual(resolveValue(left, context),
                            resolveValue(right, context))
      [] k = 6 -> areEqual(resolveValue(left, context),
                           resolveValue(right, context))
      [] k = 7 -> resolveNumeric(left, context) >= resolveNumeric(right, context)
      [] k = 8 -> resolveNumeric(left, context) <= resolveNumeric(right, context)
      [] k = 9 -> resolveNumeric(left, context) > resolveNumeric(right, context)
      [] k = 10 -> resolveNumeric(left, context) < resolveNumeric(right, context)

\* evaluateComparison once the operator k is found at the 0-based index.
CompareAt(expression, context, k, index) ==
    Compare(k, SubSeq(expression, 1, index),
            SubSeq(expression, index + Len(ComparisonOps[k]) + 1,
                   Len(expression)),
            context)

\* evaluateComparison after the "is ..." checks.
CompareBy(expression, context, k) ==
    IF k = 0 THEN TruthyValue(expression, context)
    ELSE CompareAt(expression, context, k,
                   findOperator(expression, ComparisonOps[k]))

\* The operand of an "is ..." check: what stands before the suffix, trimmed.
Operand(expression, suffix) ==
    Trim(SubSeq(expression, 1, Len(expression) - Len(suffix)))

\* ExpressionEvaluator.evaluateComparison
evaluateComparison(expression, context) ==
    IF EndsWith(LowerText(expression), IsEmptyLit)
    THEN \/ Falsy(resolveValue(Operand(expression, IsEmptyLit), context))
         \/ resolveValue(Operand(expression, IsEmptyLit), context).text = << >>
    ELSE IF EndsWith(LowerText(expression), IsNotEmptyLit)
    THEN /\ ~Falsy(resolveValue(Operand(expression, IsNotEmptyLit), context))
         /\ resolveValue(Operand(expression, IsNotEmptyLit), context).text # << >>
    ELSE IF EndsWith(LowerText(expression), IsDefinedLit)
    THEN hasVariable(Operand(expression, IsDefinedLit), context)
    ELSE IF EndsWith(LowerText(expression), IsNotDefinedLit)
    THEN ~hasVariable(Operand(expression, IsNotDefinedLit), context)
    ELSE CompareBy(expression, context, FirstOperator(expression, 1))

RECURSIVE evaluate(_, _)
\* evaluate after the trim, with the places of the first " and " and " or ".
EvaluateTrimmed(e, context, andIndex, orIndex) ==
    IF andIndex > 0
    THEN /\ evaluate(SubSeq(e, 1, andIndex), context)
         /\ evaluate(SubSeq(e, andIndex + 6, Len(e)), context)
    ELSE IF orIndex > 0
    THEN \/ evaluate(SubSeq(e, 1, orIndex), context)
         \/ evaluate(SubSeq(e, orIndex + 5, Len(e)), context)
    ELSE IF StartsWithAt(e, 1, NotPrefix)
    THEN ~evaluate(SubSeq(e, 5, Len(e)), context)
    ELSE IF e[1] = "(" /\ e[Len(e)] = ")"
    THEN evaluate(SubSeq(e, 2, Len(e) - 1), context)
    ELSE evaluateComparison(e, context)

EvaluateNonEmpty(e, context) ==
    IF e = << >> THEN FALSE
    ELSE EvaluateTrimmed(e, context, findLogicalOperator(e, AndOp),
                         findLogicalOperator(e, OrOp))

\* ExpressionEvaluator.evaluate
evaluate(expression, context) == EvaluateNonEmpty(Trim(expression), context)

A_or_B_and_C == <<"a">> \o OrOp \o <<"b">> \o AndOp \o <<"c">>
PAandBP_or_C == <<"(", "a">> \o AndOp \o <<"b", ")">> \o OrOp \o <<"c">>

Expressions ==
    { A_or_B_and_C, PAandBP_or_C,
      <<"a">> \o AndOp \o <<"b">> \o OrOp \o <<"c">>,
      <<"a">> \o OrOp \o <<"b">>,
      <<"A", " ", "A", "N", "D", " ", "b">>,
      NotPrefix \o <<"a">>,
      <<"(", "a", ")">>,
      <<" ", "c", " ">>,
      <<"'", "a">> \o AndOp \o <<"b", "'">>,
      <<"0">> \o OrOp \o <<"c">>,
      <<"a", " ", "m", "a", "t", "c", "h", "e", "s", " ", "/", "T", "R", "/">>, <<"a", " ", "m", "a", "t", "c", "h", "e", "s", " ", "'", "x", "'">>, <<"2", " ", ">", "=", " ", "1", "0">>, <<"b", " ", "<", "=", " ", "3">>,
      <<"1", "2", " ", ">", " ", "1">>, <<"1", " ", "<", " ", "0", "2">>, <<"a", " ", "i", "s", " ", "e", "m", "p", "t", "y">>, <<"0", " ", "i", "s", " ", "e", "m", "p", "t", "y">>,
      <<"b", " ", "i", "s", " ", "n", "o", "t", " ", "e", "m", "p", "t", "y">>, <<"c", " ", "i", "s", " ", "d", "e", "f", "i", "n", "e", "d">>, <<"d", " ", "i", "s", " ", "d", "e", "f", "i", "n", "e", "d">>,
      <<"A", " ", "i", "s", " ", "n", "o", "t", " ", "d", "e", "f", "i", "n", "e", "d">> }

Contexts ==
    { NewContext([k \in {<<"a">>, <<"b">>, <<"c">>} |-> StringValue(truth[k[1]])]) :
        truth \in [{"a", "b", "c"} -> {TrueText, FalseText}] }

\* Quoted string literals that hold an operator token.
QuotedOperands ==
    { <<"\"", "a", " ", "a", "n", "d", " ", "b", "\"">>, <<"'", "a", " ", "a", "n", "d", " ", "b", "'">>, <<"\"", "a", " ", "o", "r", " ", "b", "\"">>, <<"'", "A", " ", "A", "N", "D", " ", "b", "'">>,
      <<"\"", "a", " ", "=", "=", " ", "b", "\"">>, <<"'", "a", " ", "!", "=", " ", "b", "'">>, <<"\"", "a", " ", "c", "o", "n", "t", "a", "i", "n", "s", " ", "b", "\"">>, <<"\"", "b", " ", "i", "s", " ", "e", "m", "p", "t", "y", "\"">>,
      <<"\"", "i", "t", "'", "s", " ", "a", "n", "d", " ", "b", "\"">>, <<"\"", "a", "\\", "\"", " ", "a", "n", "d", " ", "b", "\"">>, <<"'", "n", "o", "t", " ", "a", "'">>, <<"\"", "(", "a", " ", "o", "r", " ", "b", ")", "\"">> }

\* The comparisons of a variable with a quoted literal: operator k of
\* ComparisonOps, the literal on the right or (swapped) on the left.
QuotedCases ==
    [k : {2, 3, 4, 5, 6}, quoted : QuotedOperands, swapped : BOOLEAN]

QuotedExpression(case) ==
    IF case.swapped
    THEN case.quoted \o ComparisonOps[case.k] \o <<"a">>
    ELSE <<"a">> \o ComparisonOps[case.k] \o case.quoted

A_eq_AandB == QuotedExpression([k |-> 6, quoted |-> <<"\"", "a", " ", "a", "n", "d", " ", "b", "\"">>, swapped |-> FALSE])

\* The contexts of the quoted cases: a holds the text of one of the
\* literals, or "true".
QuotedContexts ==
    { NewContext([k \in {<<"a">>, <<"b">>, <<"c">>} |->
                    StringValue(IF k = <<"a">> THEN value
                                ELSE IF k = <<"b">> THEN TrueText ELSE FalseText)]) :
        value \in {Unquote(quoted) : quoted \in QuotedOperands} \cup {TrueText} }

\* The conditions and contexts evaluate is applied to.
EvalInputs ==
    (Expressions \X Contexts)
        \cup ({QuotedExpression(case) : case \in QuotedCases} \X QuotedContexts)

EvalInit ==
    /\ IdleEngine
    /\ res = NoRes
    /\ sc = NoScript
    /\ bt = NoBatch
    /\ \E input \in EvalInputs :
          ev = [pc |-> "input", expression |-> input[1], context |-> input[2],
                value |-> FALSE]

\* new ExpressionEvaluator(context).evaluate(expression)
Evaluate ==
    /\ ev.pc = "input"
    /\ ev' = [ev EXCEPT !.pc = "done",
                        !.value = evaluate(ev.expression, ev.context)]
    /\ UNCHANGED <<now, session, cancelled, ex, gh, res, sc, bt, cn, pool, tp, dev, cx>>

SpecEval == EvalInit /\ [][Evaluate]_vars

(***************************************************************************)
(* The two ways the handlers evaluate a condition: IfCommand hands the     *)
(* condition to the evaluator as written, WhileCommand and the when guard  *)
(* of ForeachCommand substitute the variables in the whole text first.     *)
(***************************************************************************)
\* The conditions of the steps.
ConditionTexts ==
    { <<"$", "{", "a", "}", " ", "=", "=", " ", "\"", "x", "\"">>, <<"$", "{", "a", "}", " ", "=", "=", " ", "$", "{", "b", "}">>, <<"$", "{", "a", "}">>, <<"n", "o", "t", " ", "$", "{", "a", "}">>,
      <<"$", "{", "a", "}", " ", "i", "s", " ", "e", "m", "p", "t", "y">>, <<"\"", "$", "{", "a", "}", "\"", " ", "=", "=", " ", "\"", "x", "\"">>, <<"$", "{", "a", "}", " ", "c", "o", "n", "t", "a", "i", "n", "s", " ", "\"", "x", "\"">>,
      <<"$", "{", "a", "}", " ", "!", "=", " ", "$", "{", "b", "}", " ", "a", "n", "d", " ", "$", "{", "b", "}">>, <<"a", " ", "=", "=", " ", "\"", "x", "\"">>, <<"b">> }

\* The values of the variables: empty, plain, with a space, with operator
\* words, with quotes.
ConditionValues ==
    { << >>, <<"x">>, <<"x", " ", "y">>, <<"x", " ", "a", "n", "d", " ", "f", "a", "l", "s", "e">>, <<"f", "a", "l", "s", "e", " ", "o", "r", " ", "x">>, <<"'", "x", "'">>, <<"0">>, <<"f", "a", "l", "s", "e">> }

ConditionContexts ==
    { NewContext([k \in {<<"a">>, <<"b">>} |->
                    StringValue(IF k = <<"a">> THEN a ELSE b)]) :
        a \in ConditionValues, b \in {<<"x">>, << >>, <<"x", " ", "y">>} }

ConditionInit ==
    /\ IdleEngine
    /\ res = NoRes
    /\ sc = NoScript
    /\ bt = NoBatch
    /\ \E condition \in ConditionTexts, context \in ConditionContexts :
          ev = [pc |-> "input", condition |-> condition, context |-> context,
                ifDone |-> FALSE, ifMet |-> FALSE,
                whileDone |-> FALSE, whileMet |-> FALSE]

\* IfCommand.execute up to the choice of the branch:
\* conditionMet = evaluator.evaluate(step.condition)
IfEvaluates ==
    /\ ev.pc = "input"
    /\ ~ev.ifDone
    /\ ev' = [ev EXCEPT !.ifDone = TRUE,
                        !.ifMet = evaluate(ev.condition, ev.context)]
    /\ UNCHANGED <<now, session, cancelled, ex, gh, res, sc, bt, cn, pool, tp, dev, cx>>

\* One check of WhileCommand.execute:
\* conditionMet = evaluator.evaluate(context.substituteVariables(step.condition))
WhileEvaluates ==
    /\ ev.pc = "input"
    /\ ~ev.whileDone
    /\ ev' = [ev EXCEPT !.whileDone = TRUE,
                        !.whileMet = evaluate(substituteVariables(ev.condition, ev.context),
                                              ev.context)]
    /\ UNCHANGED <<now, session, cancelled, ex, gh, res, sc, bt, cn, pool, tp, dev, cx>>

NextCondition == IfEvaluates \/ WhileEvaluates

SpecCondition == ConditionInit /\ [][NextCondition]_vars

(***************************************************************************)
(* A ScriptContext and the leaf steps of a script run on it: set, send and *)
(* print steps in any order.                                               *)
(*   cx.context    the variables and lastCommandOutput                     *)
(*   cx.debugMode  the flag of that name                                   *)
(*   cx.output     the accumulated output log, each line with the type it  *)
(*                 was emitted with ("Raw" for what recordCommandOutput    *)
(*                 pushes)                                                 *)
(*   cx.events     the 'output' events emitted to the listeners            *)
(*   cx.steps      the number of steps run                                 *)
(*   cx.template, cx.result   the text of the latest print step and what   *)
(*                 substituteVariables made of it                          *)
(*   cx.sent       the outputs of the commands the send steps executed,    *)
(*                 cx.written the writes to variables, in order (history)  *)
(***************************************************************************)
MaxContextSteps == 3

\* The names the steps write and read.
StepNames == { <<"a">>, <<"A">>, <<"_", "o", "u", "t", "p", "u", "t">>, <<"_", "O", "U", "T", "P", "U", "T">> }

\* The quoted texts of the set steps.
SetTexts == { <<"x">> }

\* The outputs of the commands: plain text, nothing, text that looks like a
\* placeholder, and text with a dollar sign followed by $, & or '.
CommandOutputs == { <<"o">>, << >>, <<"$", "{", "a", "}">>, <<"p", "$", "$">>, <<"$", "&">>, <<"q", "$", "'">> }

\* The capture targets of the send steps; the empty text is none.
CaptureTargets == { << >>, <<"A">> }

\* The texts of the print steps.
PrintTexts == { <<"$", "{", "_", "o", "u", "t", "p", "u", "t", "}">>, <<"$", "{", "_", "O", "U", "T", "P", "U", "T", "}">>, <<"$", "{", "a", "}">>, <<"$", "{", "A", "}">> }

Line(type, message) == [type |-> type, message |-> message]

\* An emitOutput that does not look at the debug flag.
EmitAlways(message, type, c) ==
    [c EXCEPT !.output = Append(@, Line(type, message)),
              !.events = Append(@, Line(type, message))]

\* ScriptContext.emitOutput(message, type): a Debug line is dropped when the
\* debug flag is off; any other line is pushed to the log and emitted.
emitOutput(message, type, c) ==
    IF type = "Debug" /\ ~c.debugMode THEN c
    ELSE [c EXCEPT !.output = Append(@, Line(type, message)),
                   !.events = Append(@, Line(type, message))]

\* ScriptExecutor.execute up to the first step: the debug flag is the
\* script's or the global one, the start of the script is announced and a
\* Debug summary follows.
ContextInit ==
    /\ now = 1
    /\ session = InitialSession
    /\ cancelled = FALSE
    /\ ex = [e \in Execs |-> IdleExec]
    /\ gh = [e \in Execs |-> IdleGhost]
    /\ cn = Connected
    /\ pool = NoPool
    /\ tp = NoText
    /\ dev = NoDevice
    /\ res = NoRes
    /\ sc = NoScript
    /\ bt = NoBatch
    /\ ev = NoEval
    /\ \E debugMode \in BOOLEAN :
          cx = emitOutput(<<"[", "S", "C", "R", "I", "P", "T", " ", "S", "T", "A", "R", "T", "]">>, "Debug",
                  emitOutput(<<"S", "t", "a", "r", "t", "i", "n", "g", " ", "s", "c", "r", "i", "p", "t">>, "Info",
                      [pc |-> "run", context |-> NewContext(<< >>), debugMode |-> debugMode,
                       output |-> << >>, events |-> << >>, steps |-> 0,
                       template |-> << >>, result |-> << >>,
                       sent |-> << >>, written |-> << >>]))

\* SetCommand.execute for `name = "text"`: the quoted text with its
\* variables substituted is written to the variable, and a Debug line tells.
SetStep(name, text) ==
    /\ cx.pc \in {"run", "printed"}
    /\ cx.steps < MaxContextSteps
    /\ cx' = emitOutput(<<"[", "S", "E", "T", "]">>, "Debug",
                [cx EXCEPT !.pc = "run",
                           !.steps = @ + 1,
                           !.context = setVariable(name,
                                           StringValue(substituteVariables(text, cx.context)),
                                           cx.context),
                           !.written = Append(@, [name |-> name,
                                                  value |-> StringValue(substituteVariables(text, cx.context))])])
    /\ UNCHANGED <<now, session, cancelled, ex, gh, res, sc, bt, ev, cn, pool, tp, dev>>

\* The lines SendCommand.execute emits after the command: the output if
\* there is any, and a Debug line about the capture.
AfterSend(output, capture, c) ==
    IF capture # << >>
    THEN emitOutput(<<" ", " ", "C", "a", "p", "t", "u", "r", "e", "d">>, "Debug",
                    IF output # << >> THEN emitOutput(output, "CommandOutput", c) ELSE c)
    ELSE IF output # << >> THEN emitOutput(output, "CommandOutput", c) ELSE c

\* SendCommand.execute for a command that sshService.execute resolved with
\* `output`, successfully or not: the command line is shown, the output is
\* recorded and pushed to the log, then shown.
SendStepRuns(capture, output, success) ==
    /\ cx.pc \in {"run", "printed"}
    /\ cx.steps < MaxContextSteps
    /\ cx' = AfterSend(output, capture,
                [emitOutput(<<"$", " ", "c">>, "Command", cx) EXCEPT
                    !.pc = "run",
                    !.steps = @ + 1,
                    !.context = recordCommandOutput(output, capture, cx.context),
                    !.output = Append(@, Line("Raw", output)),
                    !.sent = Append(@, [output |-> output, success |-> success]),
                    !.written = IF capture # << >>
                                THEN @ \o << [name |-> OutputName, value |-> StringValue(output)],
                                             [name |-> capture, value |-> StringValue(output)] >>
                                ELSE Append(@, [name |-> OutputName, value |-> StringValue(output)])])
    /\ UNCHANGED <<now, session, cancelled, ex, gh, res, sc, bt, ev, cn, pool, tp, dev>>

\* PrintCommand.execute: the text with its variables substituted is
\* emitted, after a Debug line.
PrintStepRuns(text) ==
    /\ cx.pc \in {"run", "printed"}
    /\ cx.steps < MaxContextSteps
    /\ cx' = emitOutput(substituteVariables(text, cx.context), "CommandOutput",
                emitOutput(<<"[", "P", "R", "I", "N", "T", "]">>, "Debug",
                    [cx EXCEPT !.pc = "printed",
                               !.steps = @ + 1,
                               !.template = text,
                               !.result = substituteVariables(text, cx.context)]))
    /\ UNCHANGED <<now, session, cancelled, ex, gh, res, sc, bt, ev, cn, pool, tp, dev>>

NextContext ==
    \/ \E name \in StepNames, text \in SetTexts : SetStep(name, text)
    \/ \E capture \in CaptureTargets, output \in CommandOutputs, success \in BOOLEAN :
          SendStepRuns(capture, output, success)
    \/ \E text \in PrintTexts : PrintStepRuns(text)

SpecContext == ContextInit /\ [][NextContext]_vars

(***************************************************************************)
(* ExtractCommand on a context: the matches of a pattern in the text of a  *)
(* variable are collected with RegExp.prototype.exec and written to the    *)
(* target variable.                                                        *)
(*   cx.pattern, cx.lastIndex  the RegExp built with the flags gm          *)
(*   cx.source                 the text of the `from` variable             *)
(*   cx.matches                the matches collected so far                *)
(*   cx.odd                    history: the parity of the calls of exec    *)
(*   cx.result                 "none" until the handler returns            *)
(***************************************************************************)
MaxSource == 2

\* The patterns of the steps: a letter, a letter with *, + or ?, the start
\* of a line, and a pattern the RegExp constructor rejects.
ExtractPatterns == { <<"a">>, <<"a", "*">>, <<"a", "+">>, <<"a", "?">>, <<"^">>, <<"(">> }

InvalidPatterns == { <<"(">> }

\* The texts of the variable the step reads.
RECURSIVE SourcesOf(_)
SourcesOf(n) ==
    IF n = 0 THEN { << >> }
    ELSE SourcesOf(n - 1)
            \cup { Append(t, c) : t \in SourcesOf(n - 1), c \in {"a", "b", "\n"} }

ExtractSources == SourcesOf(MaxSource)

MatchOptions == { "first", "last", "all" }

FromName == <<"s">>
IntoName == <<"v">>

\* The number of a's of the source from the 0-based index i on.
RECURSIVE RunOfA(_, _)
RunOfA(source, i) ==
    IF i < Len(source) /\ source[i + 1] = "a" THEN 1 + RunOfA(source, i + 1) ELSE 0

\* The length of the match of the pattern at the 0-based index i of the
\* source, -1 if it does not match there.
MatchLength(pattern, source, i) ==
    IF pattern = <<"a">> THEN (IF RunOfA(source, i) >= 1 THEN 1 ELSE -1)
    ELSE IF pattern = <<"a", "*">> THEN RunOfA(source, i)
    ELSE IF pattern = <<"a", "+">> THEN (IF RunOfA(source, i) >= 1 THEN RunOfA(source, i) ELSE -1)
    ELSE IF pattern = <<"a", "?">> THEN (IF RunOfA(source, i) >= 1 THEN 1 ELSE 0)
    ELSE IF i = 0 \/ source[i] = "\n" THEN 0
    ELSE -1

\* The indexes from lastIndex on at which the pattern matches.
MatchIndexes(pattern, source, lastIndex) ==
    { i \in lastIndex..Len(source) : MatchLength(pattern, source, i) >= 0 }

MatchIndex(pattern, source, lastIndex) ==
    CHOOSE i \in MatchIndexes(pattern, source, lastIndex) :
        \A j \in MatchIndexes(pattern, source, lastIndex) : i <= j

\* RegExp.prototype.exec of a global regex: the search starts at lastIndex;
\* a match sets lastIndex to its end, a failure sets it to 0.
ExecFinds(pattern, source, lastIndex) ==
    MatchIndexes(pattern, source, lastIndex) # {}

ExecEnd(pattern, source, lastIndex) ==
    MatchIndex(pattern, source, lastIndex)
        + MatchLength(pattern, source, MatchIndex(pattern, source, lastIndex))

ExecMatch(pattern, source, lastIndex) ==
    SubSeq(source, MatchIndex(pattern, source, lastIndex) + 1,
           ExecEnd(pattern, source, lastIndex))

ExtractInit ==
    /\ now = 1
    /\ session = InitialSession
    /\ cancelled = FALSE
    /\ ex = [e \in Execs |-> IdleExec]
    /\ gh = [e \in Execs |-> IdleGhost]
    /\ cn = Connected
    /\ pool = NoPool
    /\ tp = NoText
    /\ dev = NoDevice
    /\ res = NoRes
    /\ sc = NoScript
    /\ bt = NoBatch
    /\ ev = NoEval
    /\ \E pattern \in ExtractPatterns, source \in ExtractSources, match \in MatchOptions :
          cx = [pc |-> "step", context |-> NewContext(FromName :> StringValue(source)),
                pattern |-> pattern, match |-> match, source |-> << >>,
                lastIndex |-> 0, matches |-> << >>, odd |-> FALSE, result |-> "none"]

\* ExtractCommand.execute up to the loop: an empty source sets the empty
\* result and returns, a pattern the constructor rejects is an error.
ExtractStarts ==
    /\ cx.pc = "step"
    /\ cx' = IF getVariableString(FromName, cx.context) = << >>
             THEN [cx EXCEPT !.pc = "returned", !.result = "success",
                             !.context = setVariable(IntoName, StringValue(<< >>), @)]
             ELSE IF cx.pattern \in InvalidPatterns
             THEN [cx EXCEPT !.pc = "returned", !.result = "error"]
             ELSE [cx EXCEPT !.pc = "exec",
                             !.source = getVariableString(FromName, cx.context)]
    /\ UNCHANGED <<now, session, cancelled, ex, gh, res, sc, bt, ev, cn, pool, tp, dev>>

\* One turn of `while ((match = regex.exec(source)) !== null)`: the match
\* is pushed.  The list is kept up to one match more than the source has
\* characters.
ExecFindsMatch ==
    /\ cx.pc = "exec"
    /\ ExecFinds(cx.pattern, cx.source, cx.lastIndex)
    /\ cx' = [cx EXCEPT !.lastIndex = ExecEnd(cx.pattern, cx.source, cx.lastIndex),
                        !.odd = ~@,
                        !.matches = IF Len(@) <= Len(cx.source)
                                    THEN Append(@, ExecMatch(cx.pattern, cx.source, cx.lastIndex))
                                    ELSE @]
    /\ UNCHANGED <<now, session, cancelled, ex, gh, res, sc, bt, ev, cn, pool, tp, dev>>

\* The value the step writes: the first or the last match, or the list of
\* all of them.
Selected(matches, match) ==
    IF match = "all" THEN ListValue(matches)
    ELSE IF match = "last" THEN StringValue(matches[Len(matches)])
    ELSE StringValue(matches[1])

\* exec returns null: the loop ends, the selected match is written to the
\* target variable (the empty text if there is no match) and the handler
\* returns.
ExecFindsNone ==
    /\ cx.pc = "exec"
    /\ ~ExecFinds(cx.pattern, cx.source, cx.lastIndex)
    /\ cx' = [cx EXCEPT !.pc = "returned",
                        !.result = "success",
                        !.lastIndex = 0,
                        !.odd = ~@,
                        !.context = setVariable(IntoName,
                                        IF cx.matches = << >> THEN StringValue(<< >>)
                                        ELSE Selected(cx.matches, cx.match), @)]
    /\ UNCHANGED <<now, session, cancelled, ex, gh, res, sc, bt, ev, cn, pool, tp, dev>>

NextExtract == ExtractStarts \/ ExecFindsMatch \/ ExecFindsNone

SpecExtract == ExtractInit /\ [][NextExtract]_vars

\* The handler is synchronous from its first line to its return: it keeps
\* running.
SpecExtractFair == SpecExtract /\ WF_vars(NextExtract)

(***************************************************************************)
(* ForeachCommand on a context.  The do block is one step of the model: it *)
(* may write the collection variable, the loop variable or the index, and  *)
(* returns normally, with break, with exit or with a failure.              *)
(*   cx.collection  the local `collection` of the handler                  *)
(*   cx.pos         the place of the for-of iterator in it                 *)
(*   cx.index, cx.skippedCount, cx.whenCondition  the locals of these      *)
(*                  names                                                  *)
(*   cx.entry       history: the list of the collection variable at entry  *)
(*   cx.log         history: for each iteration the loop variable and the  *)
(*                  index variable at its start, the value of the guard,   *)
(*                  and whether the do block ran                           *)
(*   cx.ended       history: how the loop was left                         *)
(***************************************************************************)
MaxLoopItems == 2

ItemName == <<"i">>
IndexName == ItemName \o <<"_", "i", "n", "d", "e", "x">>
CollectionName == <<"l">>

RECURSIVE ListsOf(_)
ListsOf(n) ==
    IF n = 0 THEN { << >> }
    ELSE ListsOf(n - 1) \cup { Append(t, c) : t \in ListsOf(n - 1), c \in {<<"x">>, <<"y">>} }

\* The values of the collection variable at entry: lists, a text, a number.
CollectionValues ==
    { ListValue(items) : items \in ListsOf(MaxLoopItems) } \cup { StringValue(<<"x">>), NumberValue(3) }

\* The when guards of the steps; the empty text is no guard.
WhenTexts == { << >>, <<"$", "{", "i", "}", " ", "=", "=", " ", "\"", "x", "\"">>, <<"$", "{", "i", "_", "i", "n", "d", "e", "x", "}", " ", "<", " ", "1">> }

\* What the do block writes.
DoEffects == { "none", "collection", "item", "index" }

DoOutcomes == { "normal", "break", "exit", "failure" }

ForeachInit ==
    /\ now = 1
    /\ session = InitialSession
    /\ cancelled = FALSE
    /\ ex = [e \in Execs |-> IdleExec]
    /\ gh = [e \in Execs |-> IdleGhost]
    /\ cn = Connected
    /\ pool = NoPool
    /\ tp = NoText
    /\ dev = NoDevice
    /\ res = NoRes
    /\ sc = NoScript
    /\ bt = NoBatch
    /\ ev = NoEval
    /\ \E value \in CollectionValues, when \in WhenTexts, onError \in {"stop", "continue"} :
          cx = [pc |-> "step", context |-> NewContext(CollectionName :> value),
                when |-> when, onError |-> onError,
                collection |-> << >>, whenCondition |-> << >>,
                pos |-> 0, index |-> 0, skippedCount |-> 0,
                entry |-> << >>, log |-> << >>, ended |-> "none", result |-> "none"]

\* A loop that reads the collection variable anew in each iteration.
LiveItems(c) == getVariableList(CollectionName, c.context)

\* The list the for-of loop walks: the local `collection`.
Items(c) == c.collection

\* ForeachCommand.execute up to the loop: the collection is read once; an
\* empty one returns success.
ForeachStarts ==
    /\ cx.pc = "step"
    /\ cx' = IF getVariableList(CollectionName, cx.context) = << >>
             THEN [cx EXCEPT !.pc = "returned", !.result = "success", !.ended = "empty"]
             ELSE [cx EXCEPT !.pc = "iterate",
                             !.collection = getVariableList(CollectionName, cx.context),
                             !.entry = getVariableList(CollectionName, cx.context)]
    /\ UNCHANGED <<now, session, cancelled, ex, gh, res, sc, bt, ev, cn, pool, tp, dev>>

\* The context after the two setVariable calls of an iteration.
LoopContext(c) ==
    setVariable(IndexName, NumberValue(c.index),
        setVariable(ItemName, StringValue(Items(c)[c.pos + 1]), c.context))

\* The when guard: no guard, or evaluator.evaluate(whenCondition).
WhenHolds(c) ==
    c.when = << >> \/ evaluate(c.whenCondition, c.context)

LogEntry(c) ==
    [item |-> getVariable(ItemName, c.context), indexVar |-> getVariable(IndexName, c.context),
     guard |-> WhenHolds(c), ran |-> FALSE]

\* A guard that is false leaves the loop instead of the iteration.
SkipLeaves(c) ==
    [c EXCEPT !.pc = "returned", !.result = "success"]

\* The guard is false: skippedCount++, index++, continue.
Skips(c) ==
    [c EXCEPT !.skippedCount = @ + 1, !.index = @ + 1, !.pos = @ + 1]

\* The guard is checked: the do block is entered if it holds, the
\* iteration is skipped if it does not.
GuardChecked(c) ==
    IF WhenHolds(c)
    THEN [c EXCEPT !.pc = "do", !.log = Append(@, LogEntry(c))]
    ELSE Skips([c EXCEPT !.log = Append(@, LogEntry(c))])

\* The head of an iteration: the loop variables are set, the guard, if
\* there is one, is substituted in the context they are set in, and
\* checked.
IterationStarts ==
    /\ cx.pc = "iterate"
    /\ cx.pos < Len(Items(cx))
    /\ cx' = GuardChecked([cx EXCEPT !.context = LoopContext(cx),
                                     !.whenCondition = IF cx.when = << >> THEN << >>
                                                       ELSE substituteVariables(cx.when, LoopContext(cx))])
    /\ UNCHANGED <<now, session, cancelled, ex, gh, res, sc, bt, ev, cn, pool, tp, dev>>

\* The context after the do block wrote what it writes.
AfterEffect(effect, context) ==
    IF effect = "collection"
    THEN setVariable(CollectionName, ListValue(<< <<"y">>, <<"y">>, <<"y">>, <<"y">> >>), context)
    ELSE IF effect = "item" THEN setVariable(ItemName, StringValue(<<"z">>), context)
    ELSE IF effect = "index" THEN setVariable(IndexName, NumberValue(7), context)
    ELSE context

\* What the handler does with the result of the do block.
AfterDo(outcome, c) ==
    IF outcome = "break"
    THEN [c EXCEPT !.pc = "returned", !.result = "success", !.ended = "break"]
    ELSE IF outcome = "exit"
    THEN [c EXCEPT !.pc = "returned", !.result = "exit", !.ended = "exit"]
    ELSE IF outcome = "failure" /\ c.onError # "continue"
    THEN [c EXCEPT !.pc = "returned", !.result = "failure", !.ended = "failure"]
    ELSE [c EXCEPT !.pc = "iterate", !.index = @ + 1, !.pos = @ + 1]

\* executor.executeSteps(step.do, context) returns.
DoBlockReturns(effect, outcome) ==
    /\ cx.pc = "do"
    /\ cx' = AfterDo(outcome,
                [cx EXCEPT !.context = AfterEffect(effect, @),
                           !.log[Len(cx.log)].ran = TRUE])
    /\ UNCHANGED <<now, session, cancelled, ex, gh, res, sc, bt, ev, cn, pool, tp, dev>>

\* The iterator is exhausted: the loop is complete.
ForeachCompletes ==
    /\ cx.pc = "iterate"
    /\ cx.pos >= Len(Items(cx))
    /\ cx' = [cx EXCEPT !.pc = "returned", !.result = "success", !.ended = "complete"]
    /\ UNCHANGED <<now, session, cancelled, ex, gh, res, sc, bt, ev, cn, pool, tp, dev>>

NextForeach ==
    \/ ForeachStarts
    \/ IterationStarts
    \/ \E effect \in DoEffects, outcome \in DoOutcomes : DoBlockReturns(effect, outcome)
    \/ ForeachCompletes

SpecForeach == ForeachInit /\ [][NextForeach]_vars

(***************************************************************************)
(* SshExecutionService: the connections made to one host, one after the    *)
(* other, the `sessions` map, and the close events of shell and client.    *)
(*   cn.sessions  the connection `sessions` holds for the host id, 0 when  *)
(*                it holds none                                            *)
(*   cn.conns     the connections made so far: where connect(host) is,     *)
(*                whether a shell was opened, whether disconnect ended it, *)
(*                and which close events have fired                        *)
(*   cn.made      how many there are                                       *)
(*   cn.last      history: the last execute call: its errorMessage, the    *)
(*                connection whose shell it wrote to (0 for none), and     *)
(*                what the newest connection was when it was called        *)
(***************************************************************************)
MaxConnects == 2

NoConnection ==
    [pc |-> "none", shell |-> FALSE, ended |-> FALSE,
     streamClosed |-> FALSE, clientClosed |-> FALSE]

\* A connection whose connect resolved and that nobody closed.
Live(i) ==
    /\ cn.conns[i].pc = "connected"
    /\ ~cn.conns[i].ended
    /\ ~cn.conns[i].streamClosed
    /\ ~cn.conns[i].clientClosed

\* The newest connect rejected, and no earlier connection is left.
Rejected ==
    /\ cn.made > 0
    /\ cn.conns[cn.made].pc = "rejected"
    /\ \A i \in 1..(cn.made - 1) : ~Live(i)

SessionsInit ==
    /\ now = 1
    /\ session = InitialSession
    /\ cancelled = FALSE
    /\ ex = [e \in Execs |-> IdleExec]
    /\ gh = [e \in Execs |-> IdleGhost]
    /\ pool = NoPool
    /\ tp = NoText
    /\ dev = NoDevice
    /\ res = NoRes
    /\ sc = NoScript
    /\ bt = NoBatch
    /\ ev = NoEval
    /\ cx = NoContext
    /\ cn = [sessions |-> 0, conns |-> [i \in 1..MaxConnects |-> NoConnection], made |-> 0,
             last |-> [errorMessage |-> "none", wroteTo |-> 0, called |-> FALSE,
                       live |-> FALSE, rejected |-> FALSE]]

\* sshService.connect(host) is called; the callers await it, so that no
\* other connect of the host is under way.
ConnectCalled ==
    /\ cn.made < MaxConnects
    /\ \A i \in 1..cn.made : cn.conns[i].pc \notin {"connecting", "initializing"}
    /\ cn' = [cn EXCEPT !.made = @ + 1,
                        !.conns[cn.made + 1].pc = "connecting"]
    /\ UNCHANGED <<now, session, cancelled, ex, gh, res, sc, bt, ev, pool, tp, dev, cx>>

\* The shell callback of the 'ready' handler without an error: the session
\* is stored under the host id and initializeSession starts.
ShellOpened(i) ==
    /\ cn.conns[i].pc = "connecting"
    /\ ~cn.conns[i].clientClosed
    /\ cn' = [cn EXCEPT !.conns[i].pc = "initializing",
                        !.conns[i].shell = TRUE,
                        !.sessions = i]
    /\ UNCHANGED <<now, session, cancelled, ex, gh, res, sc, bt, ev, pool, tp, dev, cx>>

\* The shell callback with an error (the client is ended), or the
\* 'error' event of the client before the shell is there: connect rejects.
ConnectFails(i, shellError) ==
    /\ cn.conns[i].pc = "connecting"
    /\ cn' = [cn EXCEPT !.conns[i].pc = "rejected",
                        !.conns[i].ended = shellError]
    /\ UNCHANGED <<now, session, cancelled, ex, gh, res, sc, bt, ev, pool, tp, dev, cx>>

\* initializeSession resolves: connect resolves.
SessionInitialized(i) ==
    /\ cn.conns[i].pc = "initializing"
    /\ cn' = [cn EXCEPT !.conns[i].pc = "connected"]
    /\ UNCHANGED <<now, session, cancelled, ex, gh, res, sc, bt, ev, pool, tp, dev, cx>>

\* initializeSession rejects (no initial prompt was detected): the
\* rejection is passed on by `.catch(reject)`.
SessionNotInitialized(i) ==
    /\ cn.conns[i].pc = "initializing"
    /\ cn' = [cn EXCEPT !.conns[i].pc = "rejected"]
    /\ UNCHANGED <<now, session, cancelled, ex, gh, res, sc, bt, ev, pool, tp, dev, cx>>

\* SshExecutionService.disconnect(hostId) with a session in the map: shell
\* and client are told to close and the entry is deleted.
disconnect ==
    /\ cn.sessions # 0
    /\ cn' = [cn EXCEPT !.conns[cn.sessions].ended = TRUE,
                        !.sessions = 0]
    /\ UNCHANGED <<now, session, cancelled, ex, gh, res, sc, bt, ev, pool, tp, dev, cx>>

\* The 'close' event of the shell of connection i, after disconnect or
\* because the device closed it: stream.on('close') deletes the entry of
\* the host id.
StreamCloses(i) ==
    /\ cn.conns[i].shell
    /\ ~cn.conns[i].streamClosed
    /\ cn' = [cn EXCEPT !.conns[i].streamClosed = TRUE,
                        !.sessions = 0]
    /\ UNCHANGED <<now, session, cancelled, ex, gh, res, sc, bt, ev, pool, tp, dev, cx>>

\* The 'close' event of the client of connection i, after that of its
\* shell if it has one: client.on('close') deletes the entry of the host id.
ClientCloses(i) ==
    /\ cn.conns[i].pc # "none"
    /\ ~cn.conns[i].clientClosed
    /\ cn.conns[i].shell => cn.conns[i].streamClosed
    /\ cn' = [cn EXCEPT !.conns[i].clientClosed = TRUE,
                        !.conns[i].pc = IF @ = "connecting" THEN "rejected" ELSE @,
                        !.sessions = 0]
    /\ UNCHANGED <<now, session, cancelled, ex, gh, res, sc, bt, ev, pool, tp, dev, cx>>

\* SshExecutionService.execute(hostId, command) up to the write of the
\* command: without a session it returns 'Not connected', with one it
\* writes the command to the shell of the session.
ExecuteCalled ==
    /\ cn.made > 0
    /\ cn' = [cn EXCEPT !.last = [errorMessage |-> IF cn.sessions = 0 THEN "Not connected" ELSE "none",
                                  wroteTo |-> cn.sessions,
                                  called |-> TRUE,
                                  live |-> Live(cn.made),
                                  rejected |-> Rejected]]
    /\ UNCHANGED <<now, session, cancelled, ex, gh, res, sc, bt, ev, pool, tp, dev, cx>>

NextSessions ==
    \/ ConnectCalled
    \/ \E i \in 1..MaxConnects : ShellOpened(i)
    \/ \E i \in 1..MaxConnects, shellError \in BOOLEAN : ConnectFails(i, shellError)
    \/ \E i \in 1..MaxConnects : SessionInitialized(i)
    \/ \E i \in 1..MaxConnects : SessionNotInitialized(i)
    \/ disconnect
    \/ \E i \in 1..MaxConnects : StreamCloses(i)
    \/ \E i \in 1..MaxConnects : ClientCloses(i)
    \/ ExecuteCalled

SpecSessions == SessionsInit /\ [][NextSessions]_vars

(***************************************************************************)
(* Properties.  LastTick(e) is what the latest poll tick of call e saw and *)
(* did; it is defined once the call has ticked.                            *)
(***************************************************************************)
Ticked(e) == gh[e].ticks > 0

TimedOut(e) ==
    /\ ex[e].pc = "done"
    /\ ex[e].resolved = 1
    /\ ~ex[e].result.success
    /\ ex[e].result.errorMessage = "Command timed out"

Cancelled(e) ==
    /\ ex[e].pc = "done"
    /\ ex[e].resolved = 1
    /\ ~ex[e].result.success
    /\ ex[e].result.errorMessage = "Execution cancelled"

\* The promise of every call is resolved at most once, exactly once when the
\* call is over, and a call still polling has not outlived its timeout by
\* more than one poll interval (and the lateness of the timer).
ResolvesOnceInTime ==
    \A e \in Execs :
        /\ ex[e].resolved <= 1
        /\ ex[e].pc = "done" <=> ex[e].resolved = 1
        /\ ex[e].pc = "poll" =>
               now - ex[e].startTime < ex[e].commandTimeout + pollInterval + MaxLate

\* C1 (as amended): every execute call resolves exactly once; while no tick
\* has seen a prompt-like tail, a tick whose elapsed time is below the command
\* timeout leaves the call polling unless cancellation is set, in which case
\* it resolves the call with 'Execution cancelled', and the first tick whose
\* elapsed time is >= the command timeout resolves it with success = false and
\* 'Command timed out', pager markers or not.
C1_TimeoutUnlessCancelled ==
    /\ ResolvesOnceInTime
    /\ \A e \in Execs :
           (Ticked(e) /\ ~gh[e].everPromptLike) =>
               IF gh[e].tick.elapsed >= ex[e].commandTimeout THEN TimedOut(e)
               ELSE IF gh[e].tick.wasCancelled THEN Cancelled(e)
               ELSE ex[e].pc = "poll"

\* C1 as stated: while no tick has seen a prompt-like tail the call resolves
\* at the first tick whose elapsed time is >= the command timeout, with
\* 'Command timed out', and at no earlier tick.
C1_TimeoutOnly ==
    /\ ResolvesOnceInTime
    /\ \A e \in Execs :
           (Ticked(e) /\ ~gh[e].everPromptLike) =>
               IF gh[e].tick.elapsed >= ex[e].commandTimeout THEN TimedOut(e)
               ELSE ex[e].pc = "poll"

\* A call that timed out without cancellation and without a prompt-like tail,
\* after a pager marker was answered.
C1_Witness ==
    \E e \in Execs :
        /\ TimedOut(e)
        /\ ~gh[e].everPromptLike
        /\ ~gh[e].tick.wasCancelled
        /\ gh[e].spaces > 0
        /\ gh[e].tick.elapsed = ex[e].commandTimeout

\* C2: a tail that only looks like a prompt (the known prompt does not match)
\* never completes the command on the tick that marks it pending; a command
\* completed through such a tail was pending before that tick, for at least
\* promptConfirmMs, and the tail still looks like a prompt.
C2_TwoStage ==
    \A e \in Execs :
        Ticked(e) =>
            /\ gh[e].tick.marked => ex[e].pc # "done"
            /\ (gh[e].tick.branch \in {"confirm", "idle"} /\ ~gh[e].tick.knownMatch) =>
                   /\ gh[e].tick.wasPending
                   /\ gh[e].tick.sinceMark >= promptConfirmMs
                   /\ gh[e].tick.promptLike

\* C3: a tick (not ended by timeout or cancellation) before which bytes have
\* arrived since the previous tick sees them as new data, so that it resets
\* the pending confirmation and records the last-data time; and a potential
\* prompt is confirmed only when no bytes arrived since it was marked.
C3_NewDataResets ==
    \A e \in Execs :
        Ticked(e) =>
            /\ (gh[e].tick.arrived /\ gh[e].tick.branch \notin {"timeout", "cancel"}) =>
                   gh[e].tick.detected
            /\ gh[e].tick.branch = "confirm" => ~gh[e].tick.arrivedSinceMark

\* C4: a tick whose elapsed time is >= the timeout gives the timed-out
\* failure, whether or not cancellation is set and whether or not the buffer
\* ends with the known prompt; a tick below the timeout with cancellation set
\* gives the cancelled failure, whether or not the buffer ends with the known
\* prompt.
C4_Precedence ==
    \A e \in Execs :
        Ticked(e) =>
            /\ gh[e].tick.elapsed >= ex[e].commandTimeout =>
                   gh[e].tick.branch = "timeout" /\ TimedOut(e)
            /\ (gh[e].tick.elapsed < ex[e].commandTimeout /\ gh[e].tick.wasCancelled) =>
                   gh[e].tick.branch = "cancel" /\ Cancelled(e)

\* A timed-out call whose last tick found cancellation set and the known
\* prompt at the end of the buffer.
C4_Witness ==
    \E e \in Execs :
        /\ TimedOut(e)
        /\ gh[e].tick.branch = "timeout"
        /\ gh[e].tick.wasCancelled
        /\ gh[e].tick.knownMatch

\* C5: no two polling loops of execute are active on the session at once.
C5_OneInFlight == Cardinality({e \in Execs : ex[e].timerOn}) <= 1

\* C6: when execute writes the command the session buffer is empty, and none
\* of the 'data' events that came while no command was in flight is in the
\* buffer the result is built from.
C6_BufferClearedAtWrite ==
    \A e \in Execs :
        /\ ex[e].pc \in {"poll", "done"} => gh[e].bufferAtWrite = << >>
        /\ ex[e].pc = "poll" => session.stale = 0
        /\ ex[e].pc = "done" => gh[e].staleAtResult = 0

\* A second command that completed with success although bytes had arrived
\* between the completion of the first and its write.
C6_Witness ==
    \E e \in Execs :
        /\ ex[e].pc = "done"
        /\ ex[e].result.success
        /\ gh[e].calls = 2
        /\ gh[e].staleAtWrite > 0

\* C7: every step that completes an execute call leaves commandSentTime = 0,
\* output suppression on and the call's poll timer stopped.
C7_CompletionResets ==
    [][\A e \in Execs :
          (ex[e].pc = "poll" /\ ex'[e].pc = "done") =>
              /\ session'.commandSentTime = 0
              /\ session'.suppressOutput
              /\ ~ex'[e].timerOn]_vars

\* A call completed by the idle timeout.
C7_Witness ==
    \E e \in Execs :
        /\ ex[e].pc = "done"
        /\ gh[e].tick.branch = "idle"
        /\ session.commandSentTime = 0
        /\ ~ex[e].timerOn

\* The body lines, each normalized.
NormalizedBody(lines) == [k \in 1..Len(lines) |-> normalize(lines[k])]

\* C8 (as amended): for a buffer of echo line, body lines and a final line
\* matching the known prompt, the clean result is the normalized body lines
\* joined by newline, with the pager artifacts stripped from the joined text.
C8_BodyWithoutPagerArtifacts ==
    res.pc = "done" =>
        res.output = stripPagerArtifacts(JoinLines(NormalizedBody(res.body)))

\* C8 as stated: the clean result is exactly the normalized body lines joined
\* by newline.
C8_ExactlyBody ==
    res.pc = "done" => res.output = JoinLines(NormalizedBody(res.body))

\* A result built from a body with a pager marker among its lines.
C8_Witness ==
    /\ res.pc = "done"
    /\ Len(res.body) = 2
    /\ res.body[1] = PagerMore
    /\ res.body[2] = <<"a", CR, "b">>
    /\ res.output = <<LF, "b">>

\* The page counter and the count of the spaces written agree and stay within
\* the budget; once the budget is used up a pager marker is left alone and
\* the timeout still ends the call.
PagerBudgetKept ==
    \A e \in Execs :
        /\ gh[e].spaces = ex[e].pageCount
        /\ gh[e].spaces <= maxPages
        /\ Ticked(e) =>
               /\ gh[e].tick.wroteSpace => gh[e].tick.pagerSeen /\ gh[e].tick.budgetLeft
               /\ (gh[e].tick.pagerSeen /\ ~gh[e].tick.budgetLeft) =>
                      /\ ~gh[e].tick.wroteSpace
                      /\ gh[e].tick.branch # "pager"
                      /\ gh[e].tick.elapsed >= ex[e].commandTimeout => TimedOut(e)

\* C9 (as amended): a tick not ended by the hard timeout or by cancellation
\* that finds a pager marker in the buffer while the page budget is not used
\* up writes one space, strips the marker, increments the page counter and
\* leaves the call polling; the spaces written during one execute never
\* exceed maxPages, after which the marker is left alone and the other checks
\* still run.
C9_PagerTick ==
    /\ PagerBudgetKept
    /\ \A e \in Execs :
           (/\ Ticked(e)
            /\ gh[e].tick.pagerSeen
            /\ gh[e].tick.budgetLeft
            /\ gh[e].tick.branch \notin {"timeout", "cancel"}) =>
               /\ gh[e].tick.wroteSpace
               /\ gh[e].tick.stripped
               /\ gh[e].tick.branch = "pager"
               /\ ex[e].pc = "poll"

\* C9 as stated: every tick that finds a pager marker in the buffer while the
\* page budget is not used up writes one space, strips the marker, increments
\* the page counter and leaves the call polling.
C9_EveryPagerTick ==
    /\ PagerBudgetKept
    /\ \A e \in Execs :
           (Ticked(e) /\ gh[e].tick.pagerSeen /\ gh[e].tick.budgetLeft) =>
               /\ gh[e].tick.wroteSpace
               /\ gh[e].tick.stripped
               /\ gh[e].tick.branch = "pager"
               /\ ex[e].pc = "poll"

\* A tick that left a second pager marker alone because the budget was used
\* up by the first.
C9_Witness ==
    \E e \in Execs :
        /\ Ticked(e)
        /\ gh[e].spaces = maxPages
        /\ gh[e].tick.pagerSeen
        /\ ~gh[e].tick.budgetLeft
        /\ gh[e].tick.branch \notin {"timeout", "cancel"}
        /\ ex[e].pc = "poll"

\* A result that ends a list of steps.
Halting(result) == result.controlFlow # "normal" \/ ~result.success

\* What one executeSteps call has run is a prefix of its list, in order, each
\* entry the result of the step at its place, and none but the last halting.
RanInOrder(steps, ran) ==
    /\ Len(ran) <= Len(steps)
    /\ \A k \in 1..Len(ran) :
           /\ ran[k].idx = k
           /\ steps[k].type # "if" =>
                  \E outcome \in SendOutcomes : ran[k].result = executeStep(steps[k], outcome)
           /\ k < Len(ran) => ~Halting(ran[k].result)

\* C10: executeSteps runs the steps of its list in order; the first step whose
\* result has a control-flow tag other than 'normal', or is a failure, is the
\* last one run and its result is what the call returns; a call that runs on
\* has met no such result.
C10_FirstHaltingStepEnds ==
    /\ \A j \in 1..Len(sc.stack) :
           /\ RanInOrder(sc.stack[j].steps, sc.stack[j].ran)
           /\ Len(sc.stack[j].ran) = sc.stack[j].i
           /\ \A k \in 1..Len(sc.stack[j].ran) : ~Halting(sc.stack[j].ran[k].result)
    /\ sc.last # NoLast =>
           /\ RanInOrder(sc.last.steps, sc.last.ran)
           /\ IF sc.last.ran # << >> /\ Halting(sc.last.ran[Len(sc.last.ran)].result)
              THEN /\ sc.last.result = sc.last.ran[Len(sc.last.ran)].result
                   /\ ~sc.last.byCancel
              ELSE IF sc.last.byCancel
              THEN sc.last.result = CancelledResult /\ Len(sc.last.ran) < Len(sc.last.steps)
              ELSE sc.last.result = successResult /\ Len(sc.last.ran) = Len(sc.last.steps)

\* A list of three steps halted by the failure of its second step.
C10_Witness ==
    /\ sc.pc = "done"
    /\ Len(sc.last.steps) = 3
    /\ Len(sc.last.ran) = 2
    /\ sc.last.result = errorResult("Command timed out")
    /\ sc.ret = sc.last.result

(***************************************************************************)
(* Properties of a whole script run (SpecRun).                             *)
(***************************************************************************)
ExitClass(message) ==
    IF Includes(message, <<"f", "a", "i", "l">>) \/ Includes(message, <<"e", "r", "r", "o", "r">>)
    THEN "failure"
    ELSE "success"

\* C11: an exit step, however deep in if / foreach / while blocks, is the
\* last step handler of the run: when it has returned the run is over, no
\* step and no loop iteration follows, and the ScriptResult carries the
\* exit's message and its success / failure classification.
C11_ExitUnwinds ==
    \A k \in 1..Len(sc.trace) :
        sc.trace[k].step.type = "exit" =>
            /\ k = Len(sc.trace)
            /\ sc.pc = "done"
            /\ sc.stack = << >>
            /\ sc.ret.controlFlow = "exit"
            /\ sc.result.message = sc.trace[k].step.value
            /\ sc.result.status = ExitClass(sc.trace[k].step.value)

\* An exit-failure step inside an if inside a loop has ended the run.
C11_Witness ==
    /\ sc.pc = "done"
    /\ Len(sc.trace) >= 3
    /\ sc.trace[Len(sc.trace)].step = ExitFailStep
    /\ sc.trace[Len(sc.trace)].depth >= 4
    /\ sc.result.status = "failure"

\* C13: a step that fails at run time and declares on_error: continue does
\* not end its list: the steps that follow it are still executed.
C13_ContinueGoesOn ==
    \A k \in 1..Len(sc.trace) :
        (sc.trace[k].failed /\ sc.trace[k].step.onError = "continue" /\ sc.trace[k].more)
            => ~sc.trace[k].halted

\* C14: once cancellation has been requested while a send of the run is in
\* flight, that send resolves as failed (here: as cancelled, its timeout not
\* having passed), no further step handler of the run is started, and the
\* script unwinds with control flow "exit".
C14_CancelUnwindsWithExit ==
    (/\ sc.inFlight > 0
     /\ sc.pc # "send"
     /\ sc.trace[sc.inFlight].error # "Command timed out") =>
        /\ sc.trace[sc.inFlight].error = "Execution cancelled"
        /\ Len(sc.trace) = sc.inFlight
        /\ sc.pc = "done" => sc.ret.controlFlow = "exit"

\* C16: a run that ends because executeSteps found the cancellation flag set
\* has the ScriptResult status "cancelled".
C16_CancelledStatus ==
    (sc.pc = "done" /\ sc.cancelled /\ sc.ret = CancelledResult) =>
        sc.result.status = "cancelled"

(***************************************************************************)
(* Properties of the batches (SpecBatch).                                  *)
(***************************************************************************)
\* The completion events sent for host h in batch b.
EventsOf(b, h) ==
    { k \in 1..Len(bt.events) : bt.events[k].batch = b /\ bt.events[k].host = h }

\* The handler is through with host h of batch b.
HostDone(b, h) ==
    \/ b < bt.batch
    \/ b = bt.batch /\ (h < bt.h \/ bt.pc = "idle")

\* C15: a command of a batch fails with "Execution cancelled" only if
\* cancellation was requested during that batch, not because of an earlier
\* request.
C15_CancelledOnlyOnRequest ==
    bt.last.error = "Execution cancelled" => bt.cancelledIn = bt.last.batch

C18_FailureHasMessage ==
    \A k \in 1..Len(bt.events) :
        ~bt.events[k].success =>
            (bt.events[k].message # << >> \/ bt.events[k].text # "")

(***************************************************************************)
(* Properties of the ExpressionEvaluator (SpecEval).                       *)
(***************************************************************************)
\* The truth value the context gives a variable.
Truth(name) == ev.context.variables[<<name>>].text = TrueText

\* C19: `or` binds less tightly than `and`: "a or b and c" evaluates to
\* a or (b and c), whatever the truth values of a, b and c.
C19_OrBelowAnd ==
    (ev.pc = "done" /\ ev.expression = A_or_B_and_C) =>
        ev.value = (Truth("a") \/ (Truth("b") /\ Truth("c")))

\* C20: a parenthesized sub-expression is a unit: "(a and b) or c" evaluates
\* to (a and b) or c, whatever the truth values of a, b and c.
C20_ParenthesesAreUnits ==
    (ev.pc = "done" /\ ev.expression = PAandBP_or_C) =>
        ev.value = ((Truth("a") /\ Truth("b")) \/ Truth("c"))

\* What comparison k of ComparisonOps says of two texts.
Compared(k, left, right) ==
    CASE k = 2 -> \E p \in 1..Len(left) : LitAt(LowerText(left), p, LowerText(right))
      [] k = 3 -> LitAt(LowerText(left), 1, LowerText(right))
      [] k = 4 -> EndsWith(LowerText(left), LowerText(right))
      [] k = 5 -> LowerText(left) # LowerText(right)
      [] k = 6 -> LowerText(left) = LowerText(right)

\* The value of a quoted case: the comparison of the value of a with the
\* text between the quotes.
QuotedValue(case, value) ==
    IF case.swapped
    THEN Compared(case.k, Unquote(case.quoted), value)
    ELSE Compared(case.k, value, Unquote(case.quoted))

\* C21: an operator token inside a quoted string literal is never taken as
\* the operator: a comparison of a variable with a quoted literal that holds
\* " and ", " or ", " == ", " != ", " contains ", "not " or " is empty" is
\* evaluated as that single comparison of the variable's value with the
\* literal's text.
C21_QuotedOperators ==
    \A case \in QuotedCases :
        (ev.pc = "done" /\ ev.expression = QuotedExpression(case)) =>
            ev.value = QuotedValue(case, ev.context.variables[<<"a">>].text)

\* C21 witness: a == "a and b" was evaluated with a holding the text
\* a and b, and is true.
C21_Witness ==
    /\ ev.pc = "done"
    /\ ev.expression = A_eq_AandB
    /\ ev.context.variables[<<"a">>].text = <<"a", " ", "a", "n", "d", " ", "b">>
    /\ ev.value

(***************************************************************************)
(* Properties of the while loop (SpecRunFair).                             *)
(***************************************************************************)
\* The WhileCommand call on top of the stack has used up its iterations.
AtLimit(s) ==
    /\ s.pc = "run"
    /\ s.stack[Len(s.stack)].kind = "loop"
    /\ s.stack[Len(s.stack)].step.type = "while"
    /\ s.stack[Len(s.stack)].iter = MaxIterations

\* The while loops never start an iteration beyond the limit.
WithinLimit ==
    \A k \in 1..Len(sc.stack) :
        (sc.stack[k].kind = "loop" /\ sc.stack[k].step.type = "while") =>
            sc.stack[k].iter <= MaxIterations

\* The loop at its limit is left with one Warning line, and the list that
\* holds the while step goes on with its next step.
AbandonedWithWarning ==
    AtLimit(sc) =>
        /\ sc'.warnings = sc.warnings + 1
        /\ sc'.pc = "run"
        /\ Len(sc'.stack) = Len(sc.stack) - 1
        /\ sc'.stack[Len(sc'.stack)].kind = "list"
        /\ sc'.stack[Len(sc'.stack)].i = sc.stack[Len(sc.stack) - 1].i + 1

\* C22: a while step always terminates: its do block is started at most
\* maxIterations times, after which the loop is abandoned with a Warning
\* line and a successful result, so that the steps after it still run; the
\* script run comes to its end.
C22_WhileTerminates ==
    /\ [](sc.pc # "idle" => WithinLimit)
    /\ [][AbandonedWithWarning]_vars
    /\ <>(sc.pc = "done")

\* C22 witness: a while loop was abandoned at its limit and the step after
\* it has run.
C22_Witness ==
    /\ sc.pc = "done"
    /\ sc.warnings = 1
    /\ Len(sc.trace) > 1
    /\ sc.trace[1].step.type = "while"
    /\ sc.trace[Len(sc.trace)].step = PrintStep
    /\ sc.trace[Len(sc.trace)].depth = 1
    /\ sc.result.status = "success"

(***************************************************************************)
(* Properties of the prompt matcher (Spec).                                *)
(***************************************************************************)
\* This step is a poll tick of call e that confirms `tail`, a prompt-like
\* tail of the buffer that the matcher does not match, and makes the
\* matcher of it.
ConfirmsTail(e, tail) ==
    /\ ex[e].timerOn
    /\ now >= ex[e].timerDue
    /\ Decision(e).branch = "confirm"
    /\ IsPrompt(tail)
    /\ ~RegexTest(session.promptRegex, tail)
    /\ session'.promptRegex = buildPromptRegex(tail)

ConfirmsChange(e) ==
    ConfirmsTail(e, tryDetectPromptFromTail(Decision(e).buffer))

\* C23: the prompt matcher, once established, never becomes unset, and a
\* step replaces it only if it is the confirmation step of a poll tick, by a
\* confirmed prompt-like tail that the matcher did not match; data arrival,
\* the other completions, timeout and cancellation leave it unchanged.
C23_MatcherReplacedOnConfirm ==
    [][ /\ (session.promptRegex # NullRegex => session'.promptRegex # NullRegex)
        /\ (session'.promptRegex # session.promptRegex =>
                \E e \in Execs : ConfirmsChange(e)) ]_vars

\* C23 witness: a mode change was confirmed: the matcher is no longer the
\* one of the initial prompt.
C23_Witness ==
    /\ session.promptRegex # NullRegex
    /\ session.promptRegex # InitialSession.promptRegex
    /\ \E e \in Execs : ex[e].pc = "done" /\ gh[e].tick.branch = "confirm"

(***************************************************************************)
(* Properties of connect (SpecConnect).                                    *)
(***************************************************************************)
\* This step resolves the promise of connect.
Resolves == cn.pc = "pending" /\ cn'.pc = "resolved"

\* This step is a firing of the interval of initializeSession past the
\* timeout with no prompt known.
GivesUp ==
    /\ cn.pc = "pending"
    /\ cn'.ticks # cn.ticks
    /\ session.promptRegex = NullRegex
    /\ now - cn.startTime > connectionTimeout

\* C24: connect resolves only after an initial prompt has been established
\* and the buffers of the session have been cleared; when no prompt is known
\* at the tick past the initialization timeout, connect rejects with the
\* prompt detection failure.
C24_ConnectNeedsPrompt ==
    /\ [](cn.pc = "resolved" => session.promptRegex # NullRegex)
    /\ [][ /\ (Resolves => /\ session'.promptRegex # NullRegex
                            /\ session'.buffer = << >>
                            /\ session'.lineBuffer = << >>)
           /\ (GivesUp => /\ cn'.pc = "rejected"
                          /\ cn'.error = "Failed to detect initial prompt") ]_vars

\* C24 witness: connect has resolved after a banner line and the prompt had
\* come; the buffer is empty, the prompt is known.
C24_Witness ==
    /\ cn.pc = "resolved"
    /\ Calls = 0
    /\ session.preCommandBuffer = <<"a", LF, "h", "#">>
    /\ session.buffer = << >>
    /\ session.promptRegex = buildPromptRegex(<<"h", "#">>)

\* This step is a 'data' event that comes while no command is in flight:
\* while the session is initialized, or between two commands.
OutsideData ==
    Len(session'.preCommandBuffer) > Len(session.preCommandBuffer)

\* C25: the bytes received while the session is connecting or initializing
\* and those received between commands cause no 'output' event: the event
\* that brings them emits nothing and does not put them into the line
\* buffer, from which all output is emitted.
C25_NoOutputOutsideCommands ==
    [][ OutsideData => /\ session'.emitted = session.emitted
                       /\ session'.lineBuffer = session.lineBuffer ]_vars

\* C25 witness: a banner came during initialization, a command has been
\* completed and text has come after it; nothing was emitted.
C25_Witness ==
    /\ cn.pc = "resolved"
    /\ gh[1].calls = 1
    /\ ex[1].pc = "done"
    /\ session.stale > 0
    /\ session.preCommandBuffer # << >>
    /\ session.emitted = << >>

(***************************************************************************)
(* Properties of TerminalOutputProcessor (SpecText).                       *)
(***************************************************************************)
\* text holds a pager marker: a match of PAGER_REGEX or of one of the four
\* further patterns.
HasMarker(text) ==
    \/ containsPagerPrompt(text)
    \/ \E i \in 1..Len(PagerPatterns) : NextMatch(PagerPatterns[i], text, 1) > 0

\* text holds a percentage annotation "(50%)".
HasPercent(text) == \E p \in 1..Len(text) : LitAt(text, p, <<"(", "5", "0", "%", ")">>)

\* C26: stripPagerArtifacts removes all recognized pager markers: the text
\* it returns holds no marker and no percentage annotation of one, and
\* sawPager tells whether the text given held a marker.
C26_AllMarkersRemoved ==
    (tp.pc = "done" /\ tp.fn = "strip") =>
        /\ ~HasMarker(tp.output)
        /\ ~HasPercent(tp.output)
        /\ tp.sawPager = HasMarker(tp.input)

\* C28: normalization is idempotent: normalize applied to a text that
\* normalize returned gives that text again.
C28_NormalizeIdempotent ==
    (tp.pc = "done" /\ tp.fn = "normalize") => tp.again = tp.output

(***************************************************************************)
(* Properties of a paged command (SpecPager).                              *)
(***************************************************************************)
\* The command completed by the known prompt after the device had sent all
\* of its output.
PagedAndComplete ==
    /\ ex[1].resolved = 1
    /\ ex[1].result.success
    /\ gh[1].spaces = 1
    /\ dev.sent = Len(PagedStream(dev.pad))

\* C27: after a pager was dismissed the clearing sequence of the device (a
\* carriage return, blanks, a carriage return) is stripped from the buffer:
\* the clean result of the command is the one the same output gives when
\* it is not paged, wherever the 'data' events and the poll ticks fall.
C27_ResultAsUnpaged ==
    PagedAndComplete =>
        ex[1].result.output = CleanOutput(UnpagedStream, session.promptRegex)

(***************************************************************************)
(* Properties of a batch: the hosts among each other (SpecBatchFair).      *)
(***************************************************************************)
\* The run of host h is in progress: its script or a command line of it is
\* awaited.
Running(h) == bt.pc \in {"script", "exec"} /\ bt.h = h

\* A host after host h is connecting or running, or has been.
Reached(h) == bt.h > h

CheckedOut(c) == \E e \in PoolExecs : pool.ex[e].pc = "running" /\ pool.ex[e].conn = c

\* C30: the cleanup task never closes a connection that is checked out: no
\* connection it has removed is one on which a command is still executing,
\* whatever the order of the execute calls, their completions and the
\* ticks of the cleanup interval.
C30_ReaperSparesCheckedOut ==
    \A c \in pool.reaped : ~CheckedOut(c)

(***************************************************************************)
(* Properties of ScriptContext (SpecContext).                              *)
(***************************************************************************)
\* The output of the most recent command a send step executed.
LastSent == cx.sent[Len(cx.sent)].output

\* The latest step printed the text "${_output}" after some send step.
PrintedOutput ==
    cx.pc = "printed" /\ cx.template = OutputPlaceholder /\ cx.sent # << >>

\* C31: `${_output}` substitutes the raw output of the most recent send
\* step, with or without a capture target, whether the command succeeded or
\* not, and whatever was written to a variable named _output.
C31_OutputIsLastSent ==
    PrintedOutput => cx.result = LastSent

\* The keys of the variables the placeholders of a text name, from
\* position p on: for ${name} the name, for ${name[index]} the name and the
\* index, for ${_output} the command output.
RECURSIVE ReferencedFrom(_, _)
ReferencedFrom(s, p) ==
    IF p > Len(s) THEN {}
    ELSE IF PlaceholderEnd(s, p) = 0 THEN ReferencedFrom(s, p + 1)
    ELSE IF ArrayBracket(SubSeq(s, p + 2, PlaceholderEnd(s, p) - 1)) > 0
    THEN { LowerText(SubSeq(s, p + 2, p + ArrayBracket(SubSeq(s, p + 2, PlaceholderEnd(s, p) - 1)))),
           LowerText(SubSeq(s, p + 2 + ArrayBracket(SubSeq(s, p + 2, PlaceholderEnd(s, p) - 1)),
                            PlaceholderEnd(s, p) - 2)) }
            \cup ReferencedFrom(s, PlaceholderEnd(s, p) + 1)
    ELSE { LowerText(SubSeq(s, p + 2, PlaceholderEnd(s, p) - 1)) }
            \cup ReferencedFrom(s, PlaceholderEnd(s, p) + 1)

Referenced(template) == ReferencedFrom(template, 1)

\* The context without the variables a text does not name.
OnlyReferenced(context, template) ==
    [context EXCEPT !.variables =
        [k \in DOMAIN context.variables \cap Referenced(template) |-> context.variables[k]]]

\* C39: substitution is single-pass and depends only on the variables the
\* template names: the result is the one the same template gives in a
\* context without the other variables, so placeholder-like text in a
\* substituted value, as in command output inserted through ${_output}, is
\* not expanded again.
C39_OnlyNamedVariables ==
    cx.pc = "printed" =>
        cx.result = substituteVariables(cx.template, OnlyReferenced(cx.context, cx.template))

Placeholder(name) == <<"$", "{">> \o name \o <<"}">>

\* The writes of the run to a case variant of a name, and the last of them.
WritesTo(name) ==
    { i \in 1..Len(cx.written) : LowerText(cx.written[i].name) = LowerText(name) }

LastWritten(name) ==
    cx.written[CHOOSE i \in WritesTo(name) : \A j \in WritesTo(name) : j <= i].value

\* C32: the context is one flat, case-insensitive namespace: once a
\* variable was written under a name, the lookup, the hasVariable test and
\* the ${...} substitution under every case variant of the name give the
\* value of the last write to a case variant of it.
C32_CaseInsensitiveNamespace ==
    \A name \in StepNames :
        WritesTo(name) # {} =>
            /\ hasVariable(name, cx.context)
            /\ getVariable(name, cx.context) = LastWritten(name)
            /\ (cx.pc = "printed" /\ cx.template = Placeholder(name))
                    => cx.result = LastWritten(name).text

\* C34: when the debug flag of the context is off, no line of type Debug
\* is emitted to the listeners and none is kept in the output log.
C34_NoDebugWhenOff ==
    ~cx.debugMode =>
        /\ \A i \in 1..Len(cx.events) : cx.events[i].type # "Debug"
        /\ \A i \in 1..Len(cx.output) : cx.output[i].type # "Debug"

\* The debug flag is off, set, send and print steps ran, and lines were
\* emitted and kept.
C34_Witness ==
    /\ ~cx.debugMode
    /\ cx.pc = "printed"
    /\ cx.steps = MaxContextSteps
    /\ cx.sent # << >>
    /\ \E i \in 1..Len(cx.written) : cx.written[i].name = <<"a">>
    /\ Len(cx.events) >= 3

(***************************************************************************)
(* Properties of the condition paths (SpecCondition).                      *)
(***************************************************************************)
\* C38: the if handler, which evaluates the condition as written, and the
\* while handler, which evaluates it after substituteVariables, get the
\* same boolean for every condition and context.
C38_PathsAgree ==
    (ev.pc = "input" /\ ev.ifDone /\ ev.whileDone) => ev.ifMet = ev.whileMet

(***************************************************************************)
(* Properties of ExtractCommand (SpecExtractFair).                         *)
(***************************************************************************)
\* C36: the extract handler terminates and returns a result for every
\* valid pattern and every source, also for a pattern that matches the
\* empty text.
C36_ExtractReturns ==
    (cx.pc = "step") ~> (cx.pc = "returned")

(***************************************************************************)
(* Properties of ForeachCommand (SpecForeach).                             *)
(***************************************************************************)
\* The iterations whose do block has run or was skipped: all but the one
\* whose do block is running.
Settled == IF cx.pc = "do" THEN 1..(Len(cx.log) - 1) ELSE 1..Len(cx.log)

InForeach == cx.pc \in {"iterate", "do", "returned"}

\* C33: a when guard that is false skips that iteration only: the do block
\* ran for exactly the items whose guard held, and a loop no break, exit or
\* failure ended went through every item and returns success.
C33_WhenSkipsOneIteration ==
    InForeach =>
        /\ \A k \in Settled : cx.log[k].ran = cx.log[k].guard
        /\ (cx.pc = "returned" /\ cx.ended \notin {"break", "exit", "failure"})
                => (cx.result = "success" /\ Len(cx.log) = Len(cx.entry))

\* A loop over two items returned after it skipped one and ran the other.
C33_Witness ==
    /\ cx.pc = "returned"
    /\ cx.ended = "complete"
    /\ Len(cx.log) = 2
    /\ ~cx.log[1].guard /\ ~cx.log[1].ran
    /\ cx.log[2].guard /\ cx.log[2].ran
    /\ cx.skippedCount = 1

\* At the start of each iteration the loop variable was the item of the
\* entry list at that place and the index variable its place.
SnapshotWalked ==
    InForeach =>
        /\ Len(cx.log) <= Len(cx.entry)
        /\ \A k \in 1..Len(cx.log) :
              /\ cx.log[k].item = StringValue(cx.entry[k])
              /\ cx.log[k].indexVar = NumberValue(k - 1)

\* A bound on the steps the handler has left: two for each item that is
\* still to come, none once it has returned.
StepsLeft ==
    IF cx.pc = "step" THEN 2 * Len(getVariableList(CollectionName, cx.context)) + 2
    ELSE IF cx.pc = "iterate" THEN 2 * (Len(cx.entry) - cx.pos) + 1
    ELSE IF cx.pc = "do" THEN 2 * (Len(cx.entry) - cx.pos)
    ELSE 0

\* C40: a foreach walks the collection as it was at entry: iteration k
\* (from 0, skipped ones counted) starts with the loop variable at item k
\* of that list and the index variable at k, and there are no more
\* iterations than items whatever the do block writes; every step of the
\* handler lowers the number of steps it has left, so the foreach ends.
C40_IteratesEntrySnapshot ==
    /\ []SnapshotWalked
    /\ [][StepsLeft' < StepsLeft /\ StepsLeft' >= 0]_vars

\* The do block wrote the collection variable in the first iteration and
\* the index in the second, and the loop over two items is complete.
C40_Witness ==
    /\ cx.pc = "returned"
    /\ cx.ended = "complete"
    /\ Len(cx.log) = 2
    /\ cx.log[1].ran /\ cx.log[2].ran
    /\ getVariableList(CollectionName, cx.context) # cx.entry
    /\ getVariable(IndexName, cx.context) = NumberValue(7)

(***************************************************************************)
(* Properties of the sessions of a host (SpecSessions).                    *)
(***************************************************************************)
\* C35: a close event of an earlier connection never removes the session
\* of a newer one: while the newest connection is connected and nobody
\* closed it, `sessions` holds it, and an execute called then does not
\* return 'Not connected'.
C35_OldCloseSparesNewSession ==
    /\ (cn.made > 0 /\ Live(cn.made)) => cn.sessions = cn.made
    /\ (cn.last.called /\ cn.last.live) => cn.last.errorMessage # "Not connected"

\* C37: after connect rejects, the host has no session: isConnected is
\* false, and an execute called then returns 'Not connected' without
\* writing to a shell.
C37_NoSessionAfterReject ==
    /\ Rejected => cn.sessions = 0
    /\ (cn.last.called /\ cn.last.rejected)
            => (cn.last.errorMessage = "Not connected" /\ cn.last.wroteTo = 0)

====
